---- MODULE Spec2Model ----
(***************************************************************************)
(* Model of the collection tracker's store (SQLite tables of the schema   *)
(* used by lib/collection_utils.py, lib/price_retrieval.py, collection.py  *)
(* and the older price_retrieval.py / library.py) and of the operations    *)
(* that read and write it.                                                 *)
(*                                                                         *)
(* Conventions                                                             *)
(*  - a table is a set of rows (records); AUTOINCREMENT row ids come from  *)
(*    the per-table counters in sqlite_sequence;                           *)
(*  - a nullable column holds NULL (the empty set) or Some(v) = {v};       *)
(*  - names are abstracted to their collation rank (an integer), so that   *)
(*    ORDER BY name is integer order;                                      *)
(*  - time is counted in days; retrieve_time is the day of the fetch.      *)
(***************************************************************************)
EXTENDS Integers, Sequences, FiniteSets, TLC

\* ---------------------------------------------------------------- bounds
MaxGames == 2        \* physical_games rows ever inserted
MaxSnapshots == 2    \* price snapshots ever recorded
MaxTime == 9         \* last day of the clock

\* ------------------------------------------------------ program constants
STALE_DAYS == 7      \* datetime('now', '-7 days') in eligible_price_updates

\* ----------------------------------------------------------- input domains
Names == {1, 2}
Consoles == {1}
CatalogIds == {1, 2}
Prices == {10, 20}
PurchaseConditions == {"Complete"}
PurchasePrices == {5}                          \* GameData.price
Dates == {1}                                   \* GameData.date, as a day number
Conditions == <<"complete", "new", "loose">>   \* dict order of get_game_prices

NULL == {}
Some(v) == {v}
Val(x) == CHOOSE v \in x : TRUE
Nullable(S) == {NULL} \cup {Some(v) : v \in S}

LOWER(s) == IF s = "Complete" THEN "complete" ELSE s

VARIABLES
    physical_games,                       \* PhysicalGame   {id, name, console}
    purchased_games,                      \* PurchaseRecord {id, physical_game, condition, price, acquisition_date}
    wanted_games,                         \* WishlistRecord {id, physical_game}
    pricecharting_games,                  \* CatalogGame    {id, pricecharting_id, name, console}
    physical_games_pricecharting_games,   \* link           {id, physical_game, pricecharting_game}
    pricecharting_prices,                 \* PriceObservation {id, pricecharting_id, retrieve_time, price, condition}
    sqlite_sequence,                      \* AUTOINCREMENT counters
    now,                                  \* the clock (day)
    last,                                 \* the last operation: name, arguments, result
    run,                                  \* the command in progress: its position and local variables
    report                                \* what the last read-only call returned

vars == <<physical_games, purchased_games, wanted_games, pricecharting_games,
          physical_games_pricecharting_games, pricecharting_prices,
          sqlite_sequence, now, last, run, report>>

Tables == {"physical_games", "purchased_games", "wanted_games", "pricecharting_games",
           "physical_games_pricecharting_games", "pricecharting_prices"}

\* The store as one value: what a connection reads and what a commit writes.
DB == [physical_games |-> physical_games,
       purchased_games |-> purchased_games,
       wanted_games |-> wanted_games,
       pricecharting_games |-> pricecharting_games,
       physical_games_pricecharting_games |-> physical_games_pricecharting_games,
       pricecharting_prices |-> pricecharting_prices,
       sqlite_sequence |-> sqlite_sequence]

Commit(d) ==
    /\ physical_games' = d.physical_games
    /\ purchased_games' = d.purchased_games
    /\ wanted_games' = d.wanted_games
    /\ pricecharting_games' = d.pricecharting_games
    /\ physical_games_pricecharting_games' = d.physical_games_pricecharting_games
    /\ pricecharting_prices' = d.pricecharting_prices
    /\ sqlite_sequence' = d.sqlite_sequence

\* last: op names the operation, game its physical game id (0: none), cid its
\* catalog id (NULL: none), ok its result, failAt the statement made to fail,
\* committed whether its connection committed, note what held before it ran.
Result(op, game, cid, ok, failAt, committed, note) ==
    [op |-> op, game |-> game, cid |-> cid, ok |-> ok, failAt |-> failAt,
     committed |-> committed, note |-> note]
NoOp == Result("none", 0, NULL, TRUE, "none", TRUE, {})

\* run: no command is in progress (the prompt of the main loop)
Idle == [op |-> "none", pc |-> "idle"]
\* report: nothing was returned yet
NoReport == [op |-> "none"]

Init ==
    /\ physical_games = {}
    /\ purchased_games = {}
    /\ wanted_games = {}
    /\ pricecharting_games = {}
    /\ physical_games_pricecharting_games = {}
    /\ pricecharting_prices = {}
    /\ sqlite_sequence = [t \in Tables |-> 0]
    /\ now = 1
    /\ last = NoOp
    /\ run = Idle
    /\ report = NoReport

\* cursor.lastrowid of an INSERT into an AUTOINCREMENT table
NextId(d, t) == d.sqlite_sequence[t] + 1

\* ------------------------------------------------------------ the add paths
\* INSERT INTO pricecharting_games: pricecharting_id is UNIQUE, so a second row
\* with the same non-null id raises sqlite3.IntegrityError.
UniqueViolation(d, cid) ==
    cid # NULL /\ \E z \in d.pricecharting_games : z.pricecharting_id = cid

\* Variant of existing_pc_game that never finds the stored row. C1 must fail
\* when the add paths read it.
existing_pc_game_none(d, id_data) == {}

\* SELECT id FROM pricecharting_games WHERE pricecharting_id = ?  (the ids found)
existing_pc_game(d, id_data) ==
    {z.id : z \in {y \in d.pricecharting_games : y.pricecharting_id = Some(id_data.pricecharting_id)}}

\* The "if id_data:" block of add_game_to_database / add_game_to_wishlist /
\* GameLibrary.add_game / GameLibrary.want_game (the same statements in each):
\* look the catalog id up, insert a pricecharting_games row when it is not
\* stored, insert the link. failAt names the statement made to raise
\* sqlite3.Error ("none": no injected failure). Returns the connection's view
\* of the store when the block ends, and whether it ended without an error.
link_pricecharting(d, physical_id, id_data, failAt) ==
    LET found == existing_pc_game(d, id_data)
        new_id == NextId(d, "pricecharting_games")
        insertFails == failAt = "catalog" \/ UniqueViolation(d, Some(id_data.pricecharting_id))
        d1 == IF found # {} THEN d
              ELSE [d EXCEPT !.pricecharting_games = @ \cup
                                {[id |-> new_id, pricecharting_id |-> Some(id_data.pricecharting_id),
                                  name |-> id_data.name, console |-> id_data.console]},
                             !.sqlite_sequence["pricecharting_games"] = new_id]
        pricecharting_id == IF found # {} THEN Val(found) ELSE new_id
        link_id == NextId(d1, "physical_games_pricecharting_games")
        d2 == [d1 EXCEPT !.physical_games_pricecharting_games = @ \cup
                                {[id |-> link_id, physical_game |-> physical_id,
                                  pricecharting_game |-> pricecharting_id]},
                         !.sqlite_sequence["physical_games_pricecharting_games"] = link_id]
    IN  IF found = {} /\ insertFails THEN [ok |-> FALSE, db |-> d]
        ELSE IF failAt = "link" THEN [ok |-> FALSE, db |-> d1]
        ELSE [ok |-> TRUE, db |-> d2]

\* INSERT INTO physical_games (name, console)
insert_physical_game(d, physical_id, title, console) ==
    [d EXCEPT !.physical_games = @ \cup {[id |-> physical_id, name |-> title, console |-> console]},
              !.sqlite_sequence["physical_games"] = physical_id]

\* INSERT INTO purchased_games (physical_game, acquisition_date, source, price, condition)
insert_purchased_game(d, physical_id, game) ==
    LET pid == NextId(d, "purchased_games")
    IN  [d EXCEPT !.purchased_games = @ \cup
                      {[id |-> pid, physical_game |-> physical_id, condition |-> game.condition,
                        price |-> game.price, acquisition_date |-> game.date]},
                  !.sqlite_sequence["purchased_games"] = pid]

\* INSERT INTO wanted_games (physical_game)
insert_wanted_game(d, physical_id) ==
    LET wid == NextId(d, "wanted_games")
    IN  [d EXCEPT !.wanted_games = @ \cup {[id |-> wid, physical_game |-> physical_id]},
                  !.sqlite_sequence["wanted_games"] = wid]

\* lib/collection_utils.add_game_to_database on connection view d: the result it
\* returns (success) and the connection's uncommitted view when it returns.
\* The except clause returns a failure result and does not roll back.
add_game_to_database(d, game, id_data, failAt) ==
    LET physical_id == NextId(d, "physical_games")
        d1 == insert_physical_game(d, physical_id, game.title, game.console)
        d2 == insert_purchased_game(d1, physical_id, game)
        linked == link_pricecharting(d2, physical_id, Val(id_data), failAt)
    IN  IF failAt = "physical" THEN [success |-> FALSE, db |-> d, game_id |-> physical_id]
        ELSE IF failAt = "purchase" THEN [success |-> FALSE, db |-> d1, game_id |-> physical_id]
        ELSE IF id_data = NULL THEN [success |-> TRUE, db |-> d2, game_id |-> physical_id]
        ELSE [success |-> linked.ok, db |-> linked.db, game_id |-> physical_id]

\* lib/collection_utils.add_game_to_wishlist, likewise.
add_game_to_wishlist(d, title, console, id_data, failAt) ==
    LET physical_id == NextId(d, "physical_games")
        d1 == insert_physical_game(d, physical_id, title, console)
        d2 == insert_wanted_game(d1, physical_id)
        linked == link_pricecharting(d2, physical_id, Val(id_data), failAt)
    IN  IF failAt = "physical" THEN [success |-> FALSE, db |-> d, game_id |-> physical_id]
        ELSE IF failAt = "purchase" THEN [success |-> FALSE, db |-> d1, game_id |-> physical_id]
        ELSE IF id_data = NULL THEN [success |-> TRUE, db |-> d2, game_id |-> physical_id]
        ELSE [success |-> linked.ok, db |-> linked.db, game_id |-> physical_id]

\* The inputs of an add: the game as entered, and the identity the resolver
\* returned for it (get_game_id echoes the entered name and console).
GameInputs == [title : Names, console : Consoles, condition : PurchaseConditions,
               price : PurchasePrices, date : Dates]
IdData(game) == Nullable([pricecharting_id : CatalogIds, name : {game.title}, console : {game.console}])
FailPoints(id_data) ==
    {"none", "physical", "purchase"} \cup (IF id_data = NULL THEN {} ELSE {"catalog", "link"})

CidOf(id_data) == IF id_data = NULL THEN NULL ELSE Some(Val(id_data).pricecharting_id)

\* note of an add: "stored" when the catalog id it carries was already stored
StoredNote(d, id_data) ==
    IF id_data # NULL /\ \E z \in d.pricecharting_games : z.pricecharting_id = CidOf(id_data)
    THEN {"stored"} ELSE {}

\* A caller runs add_game_to_database on its connection and then commits
\* (GameLibrary._db_connection commits when its block ends, whatever the result
\* was) or closes the connection without committing. failures: the statements
\* that may be made to fail.
AddOwned(failures) ==
    /\ sqlite_sequence["physical_games"] < MaxGames
    /\ \E game \in GameInputs : \E id_data \in IdData(game) :
       \E failAt \in FailPoints(id_data) \cap failures : \E callerCommits \in BOOLEAN :
        LET r == add_game_to_database(DB, game, id_data, failAt)
        IN  /\ (failAt = "catalog" => StoredNote(DB, id_data) = {})
            /\ (r.success => callerCommits)
            /\ IF callerCommits THEN Commit(r.db) ELSE Commit(DB)
            /\ last' = Result("add_game_to_database", r.game_id, CidOf(id_data), r.success,
                               failAt, callerCommits, StoredNote(DB, id_data))
    /\ UNCHANGED <<now, run, report>>

AddWanted(failures) ==
    /\ sqlite_sequence["physical_games"] < MaxGames
    /\ \E game \in GameInputs : \E id_data \in IdData(game) :
       \E failAt \in FailPoints(id_data) \cap failures : \E callerCommits \in BOOLEAN :
        LET r == add_game_to_wishlist(DB, game.title, game.console, id_data, failAt)
        IN  /\ game.condition = "Complete"
            /\ (failAt = "catalog" => StoredNote(DB, id_data) = {})
            /\ (r.success => callerCommits)
            /\ IF callerCommits THEN Commit(r.db) ELSE Commit(DB)
            /\ last' = Result("add_game_to_wishlist", r.game_id, CidOf(id_data), r.success,
                               failAt, callerCommits, StoredNote(DB, id_data))
    /\ UNCHANGED <<now, run, report>>

\* collection.GameLibrary.add_game after its prompts: the same statements inside
\* "with self._db_connection() as conn". An sqlite3.Error leaves the block
\* through _db_connection's except clause: DatabaseError is raised, the
\* connection is closed without a commit, add_game prints "Failed to add game".
GameLibrary_add_game(d, game, id_data, failAt) ==
    LET r == add_game_to_database(d, game, id_data, failAt)
    IN  IF r.success THEN r ELSE [success |-> FALSE, db |-> d, game_id |-> r.game_id]

AddGame(failures) ==
    /\ sqlite_sequence["physical_games"] < MaxGames
    /\ \E game \in GameInputs : \E id_data \in IdData(game) :
       \E failAt \in FailPoints(id_data) \cap failures :
        LET r == GameLibrary_add_game(DB, game, id_data, failAt)
        IN  /\ (failAt = "catalog" => StoredNote(DB, id_data) = {})
            /\ Commit(r.db)
            /\ last' = Result("add_game", r.game_id, CidOf(id_data), r.success,
                               failAt, r.success, StoredNote(DB, id_data))
    /\ UNCHANGED <<now, run, report>>

Failures == {"physical", "purchase", "catalog", "link"}
AddOwnedGame == AddOwned({"none"})
AddWantedGame == AddWanted({"none"})
AddOwnedGameFails == AddOwned(Failures)
AddWantedGameFails == AddWanted(Failures)
GameLibraryAddGame == AddGame({"none"} \cup Failures)

\* The sample_wishlist_game fixture: a wanted_games row for a game that has a
\* purchase (a PhysicalGame may be owned and wanted at once).
SampleWishlistGame ==
    /\ sqlite_sequence["wanted_games"] < MaxGames
    /\ \E g \in physical_games :
        /\ \E pg \in purchased_games : pg.physical_game = g.id
        /\ ~ \E w \in wanted_games : w.physical_game = g.id
        /\ Commit(insert_wanted_game(DB, g.id))
        /\ last' = Result("sample_wishlist_game", g.id, NULL, TRUE, "none", TRUE, {})
    /\ UNCHANGED <<now, run, report>>

\* ---------------------------------------------------------- the remove paths
\* The 'wanted' column of the search query: CASE WHEN w.id IS NOT NULL
wanted(d, game_id) == \E w \in d.wanted_games : w.physical_game = game_id
owned(d, game_id) == \E pg \in d.purchased_games : pg.physical_game = game_id

\* Variant of clean_up that also deletes the price rows of the catalog ids it
\* deletes (as ON DELETE CASCADE would). C10 must fail when the delete path
\* runs it.
clean_up_cascade(d, game_id) ==
    LET links == {j \in d.physical_games_pricecharting_games : j.physical_game # game_id}
        kept == {z \in d.pricecharting_games : \E j \in links : j.pricecharting_game = z.id}
    IN  [d EXCEPT !.physical_games_pricecharting_games = links,
                  !.physical_games = {g \in @ : g.id # game_id},
                  !.pricecharting_games = kept,
                  !.pricecharting_prices =
                      {r \in @ : \E z \in kept : z.pricecharting_id = Some(r.pricecharting_id)}]

\* DELETE FROM physical_games_pricecharting_games WHERE physical_game = ?;
\* DELETE FROM physical_games WHERE id = ?;
\* DELETE FROM pricecharting_games WHERE id NOT IN (SELECT DISTINCT pricecharting_game FROM ...)
\* (foreign keys are not enforced on this connection: no PRAGMA foreign_keys)
clean_up(d, game_id) ==
    LET links == {j \in d.physical_games_pricecharting_games : j.physical_game # game_id}
    IN  [d EXCEPT !.physical_games_pricecharting_games = links,
                  !.physical_games = {g \in @ : g.id # game_id},
                  !.pricecharting_games = {z \in @ : \E j \in links : j.pricecharting_game = z.id}]

\* DELETE FROM wanted_games WHERE physical_game = ?
delete_wanted(d, game_id) ==
    [d EXCEPT !.wanted_games = {w \in @ : w.physical_game # game_id}]

\* DELETE FROM purchased_games WHERE physical_game = ?
delete_purchased(d, game_id) ==
    [d EXCEPT !.purchased_games = {pg \in @ : pg.physical_game # game_id}]

\* collection.GameLibrary.search_library, answer 'y' to "Delete game from
\* collection?" for the selected game.
search_library_delete(d, game_id) ==
    IF wanted(d, game_id)
    THEN LET d1 == delete_wanted(d, game_id)
             has_references == owned(d1, game_id)
         IN  IF ~has_references THEN clean_up(d1, game_id) ELSE d1
    ELSE LET d1 == delete_purchased(d, game_id)
             has_references == wanted(d1, game_id)
         IN  IF ~has_references THEN clean_up(d1, game_id) ELSE d1

\* lib/collection_utils.remove_from_wishlist; the same single DELETE is the
\* 'Remove from wishlist?' choice of search_library and of view_wishlist.
remove_from_wishlist(d, game_id) == delete_wanted(d, game_id)

\* What held of the game before a removal
MarkerNote(d, game_id) ==
    (IF wanted(d, game_id) THEN {"wanted"} ELSE {}) \cup
    (IF owned(d, game_id) THEN {"owned"} ELSE {}) \cup
    (IF \E j \in d.physical_games_pricecharting_games : j.physical_game = game_id
     THEN {"linked"} ELSE {}) \cup
    (IF \E j, k \in d.physical_games_pricecharting_games :
            /\ j.physical_game = game_id /\ k.physical_game # game_id
            /\ j.pricecharting_game = k.pricecharting_game
     THEN {"shared"} ELSE {})

SearchLibraryDelete ==
    /\ \E g \in physical_games :
        /\ Commit(search_library_delete(DB, g.id))
        /\ last' = Result("search_library_delete", g.id, NULL, TRUE, "none", TRUE, MarkerNote(DB, g.id))
    /\ UNCHANGED <<now, run, report>>

SearchLibraryRemoveFromWishlist ==
    /\ \E g \in physical_games :
        /\ wanted(DB, g.id)
        /\ Commit(remove_from_wishlist(DB, g.id))
        /\ last' = Result("search_library_remove", g.id, NULL, TRUE, "none", TRUE, MarkerNote(DB, g.id))
    /\ UNCHANGED <<now, run, report>>

ViewWishlistRemove ==
    /\ \E g \in physical_games :
        /\ wanted(DB, g.id)
        /\ Commit(remove_from_wishlist(DB, g.id))
        /\ last' = Result("view_wishlist_remove", g.id, NULL, TRUE, "none", TRUE, MarkerNote(DB, g.id))
    /\ UNCHANGED <<now, run, report>>

RemoveFromWishlist ==
    /\ \E g \in physical_games :
        /\ Commit(remove_from_wishlist(DB, g.id))
        /\ last' = Result("remove_from_wishlist", g.id, NULL, TRUE, "none", TRUE, MarkerNote(DB, g.id))
    /\ UNCHANGED <<now, run, report>>

\* ------------------------------------------------------ price observations
Range(seq) == {seq[i] : i \in 1..Len(seq)}

\* Variant of last_update that reads only the rows with a price. C4 must fail
\* when the view reads it.
last_update_priced(d, cid) ==
    LET times == {p.retrieve_time : p \in {r \in d.pricecharting_prices :
                                              Some(r.pricecharting_id) = cid /\ r.price # NULL}}
    IN  IF times = {} THEN NULL
        ELSE Some(CHOOSE t \in times : \A u \in times : u <= t)

\* SELECT pricecharting_id, MAX(retrieve_time) ... GROUP BY pricecharting_id
\* (the latest_updates CTE of eligible_price_updates), for one id:
\* NULL when the id has no row, else the newest retrieve_time of any row.
last_update(d, cid) ==
    LET times == {p.retrieve_time : p \in {r \in d.pricecharting_prices : Some(r.pricecharting_id) = cid}}
    IN  IF times = {} THEN NULL
        ELSE Some(CHOOSE t \in times : \A u \in times : u <= t)

\* The eligible_price_updates view at time t: one row per physical game, link
\* and catalog row whose id was never attempted or whose newest attempt is older
\* than 7 days. LEFT JOIN purchased_games filters nothing, and wanted_games is
\* not read. g is kept to order the scan.
eligible_price_updates(d, t) ==
    {[g |-> g.id, name |-> g.name, console |-> g.console, pricecharting_id |-> z.pricecharting_id] :
        <<g, z>> \in {gz \in d.physical_games \X d.pricecharting_games :
            /\ \E j \in d.physical_games_pricecharting_games :
                    j.physical_game = gz[1].id /\ j.pricecharting_game = gz[2].id
            /\ LET lu == last_update(d, gz[2].pricecharting_id)
               IN  lu = NULL \/ Val(lu) + STALE_DAYS < t}}

\* Ascending sort of a set of rows by (name, g): ORDER BY name ASC, rows of equal
\* name in scan order.
RECURSIVE OrderByName(_)
OrderByName(rows) ==
    IF rows = {} THEN <<>>
    ELSE LET first == CHOOSE r \in rows : \A q \in rows :
                          r.name < q.name \/ (r.name = q.name /\ r.g <= q.g)
         IN  <<first>> \o OrderByName(rows \ {first})

\* LIMIT k of a result list
Limit(seq, k) == SubSeq(seq, 1, IF k < Len(seq) THEN k ELSE Len(seq))

\* Python's "if max_prices:" is false for None and for 0
Truthy(max_prices) == max_prices # NULL /\ Val(max_prices) # 0

\* SELECT DISTINCT pricecharting_id FROM eligible_price_updates ORDER BY name ASC:
\* DISTINCT keeps, for each id, the first row of the scan (lowest game id), and
\* the kept rows are then sorted by that row's name.
distinct_eligible(d, t) ==
    LET rows == eligible_price_updates(d, t)
    IN  {r \in rows : \A q \in rows : q.pricecharting_id = r.pricecharting_id => r.g <= q.g}

\* lib/price_retrieval.retrieve_games at time t
retrieve_games(d, t, max_prices) ==
    LET ordered == OrderByName(distinct_eligible(d, t))
        ids == [i \in 1..Len(ordered) |-> ordered[i].pricecharting_id]
    IN  IF Truthy(max_prices) THEN Limit(ids, Val(max_prices)) ELSE ids

\* Variant of retrieve_games_call without the except clause: the error of the
\* store leaves the call. C23 must fail when RetrieveGames reads it.
retrieve_games_uncaught(d, t, max_prices, failure) ==
    IF failure = "none"
    THEN [raised |-> "none", result |-> retrieve_games(d, t, max_prices)]
    ELSE [raised |-> failure, result |-> <<>>]

\* The call of retrieve_games as a whole: the connection or the query can fail
\* with a subclass of sqlite3.Error (the view is missing, the file is locked or
\* is not a database), which the except clause turns into an empty list.
StoreErrors == {"OperationalError", "DatabaseError"}
retrieve_games_call(d, t, max_prices, failure) ==
    IF failure = "none"
    THEN [raised |-> "none", result |-> retrieve_games(d, t, max_prices)]
    ELSE [raised |-> "none", result |-> <<>>]

\* What get_game_prices can return for an id at time t: a snapshot with each
\* price a number or None; None instead of the snapshot on a request error.
SnapshotPrices ==
    {p \in [Range(Conditions) -> Nullable(Prices)] :
        /\ p["loose"] = NULL
        /\ p["new"] \in {NULL, Some(20)}
        /\ (p["new"] = NULL => p["complete"] # Some(20))}
Snapshots(cid, t) == [game : {cid}, time : {t}, prices : SnapshotPrices]
None == {}

\* ------------------------------------------------------------ the remote site
\* What requests.get does: "ok" returns a 2xx response, "HTTPError" returns a
\* response whose status is not 2xx (raise_for_status raises HTTPError), the
\* others raise that requests.RequestException from requests.get itself.
Transports == {"ok", "HTTPError", "ConnectionError", "Timeout", "TooManyRedirects"}
RequestRaises(transport) == transport \in {"ConnectionError", "Timeout", "TooManyRedirects"}

\* The text of a price element; NULL is a page without the element
PriceTexts == {"-", "$10", "$20", "N/A"}
Pages == [Range(Conditions) -> Nullable(PriceTexts)]
PriceResponses == [transport : Transports, page : Pages]

\* price_text[1:] when the text starts with '$'
StripDollar(price_text) ==
    IF price_text = "$10" THEN "10" ELSE IF price_text = "$20" THEN "20" ELSE price_text
\* float(price_text): a number, or ValueError for a text that is no number
IsFloat(price_text) == price_text \in {"10", "20"}
Float(price_text) == IF price_text = "10" THEN 10 ELSE 20

\* extract_price on the element of one selector: None without the element or for
\* '-', the number for a price, ValueError (raised) for any other text
extract_price(element) ==
    IF element = NULL THEN [raised |-> FALSE, value |-> NULL]
    ELSE LET price_text == StripDollar(Val(element))
         IN  IF price_text = "-" THEN [raised |-> FALSE, value |-> NULL]
             ELSE IF IsFloat(price_text) THEN [raised |-> FALSE, value |-> Some(Float(price_text))]
             ELSE [raised |-> TRUE, value |-> NULL]

\* What a call returns or raises: raised is NULL or Some(exception), value is
\* None or Some(returned value)
Returned(value) == [raised |-> NULL, value |-> value]
Raised(exception) == [raised |-> Some(exception), value |-> None]

\* Variant of get_game_prices without response.raise_for_status(): the page of
\* an error status is scraped like any other. C16 must fail when it is called.
get_game_prices_no_status(game_id, response, t) ==
    IF RequestRaises(response.transport) THEN Returned(None)
    ELSE IF \E c \in Range(Conditions) : extract_price(response.page[c]).raised
    THEN Raised("ValueError")
    ELSE Returned(Some([game |-> game_id, time |-> t,
                        prices |-> [c \in Range(Conditions) |-> extract_price(response.page[c]).value]]))

\* lib/price_retrieval.get_game_prices at time t: None for a RequestException
\* (from requests.get or raise_for_status); a ValueError of extract_price is not
\* caught; else the snapshot
get_game_prices(game_id, response, t) ==
    IF response.transport # "ok" THEN Returned(None)
    ELSE IF \E c \in Range(Conditions) : extract_price(response.page[c]).raised
    THEN Raised("ValueError")
    ELSE Returned(Some([game |-> game_id, time |-> t,
                        prices |-> [c \in Range(Conditions) |-> extract_price(response.page[c]).value]]))

\* retrieve_prices.get_game_prices (the script): a RequestException is raised
\* again as ValueError
script_get_game_prices(game_id, response, t) ==
    IF response.transport # "ok" THEN Raised("ValueError")
    ELSE get_game_prices(game_id, response, t)

\* The page of a title and console: NULL without a #product_name element,
\* Some(NULL) when the element has no title attribute, Some(Some(id)) otherwise
ProductNames == {NULL} \cup {Some(x) : x \in Nullable(CatalogIds)}
IdResponses == [transport : Transports, product_name : ProductNames]

\* The URL get_game_id builds from the cleaned console and title
Url(game_name, system_name) == <<"https://www.pricecharting.com/game", system_name, game_name>>

\* lib/id_retrieval.get_game_id: requests.get is not guarded and the status is
\* not checked; extract_id returns None without the element (ValueError with
\* the URL) and calls .strip() on the title attribute (AttributeError on None)
get_game_id(internal_id, game_name, system_name, response) ==
    IF RequestRaises(response.transport) THEN Raised([type |-> response.transport, url |-> NULL])
    ELSE IF response.product_name = NULL
    THEN Raised([type |-> "ValueError", url |-> Some(Url(game_name, system_name))])
    ELSE IF Val(response.product_name) = NULL THEN Raised([type |-> "AttributeError", url |-> NULL])
    ELSE Returned(Some([id |-> internal_id, name |-> game_name, console |-> system_name,
                        pricecharting_id |-> Val(Val(response.product_name)),
                        url |-> Url(game_name, system_name)]))

\* Variant of records_of that builds a row only for a condition with a price.
\* C27 must fail when insert_price_records reads it.
RECURSIVE records_of_priced(_, _)
records_of_priced(record, i) ==
    IF i > Len(Conditions) THEN <<>>
    ELSE (IF record.prices[Conditions[i]] # NULL
          THEN << <<record.game, record.time, record.prices[Conditions[i]], Conditions[i]>> >>
          ELSE <<>>) \o records_of_priced(record, i + 1)

\* The rows insert_price_records builds for one snapshot: one per condition,
\* and one more ('new', NULL) when no condition has a price.
RECURSIVE records_of(_, _)
records_of(record, i) ==
    IF i > Len(Conditions) THEN
        IF \A c \in Range(Conditions) : record.prices[c] = NULL
        THEN << <<record.game, record.time, NULL, "new">> >> ELSE <<>>
    ELSE << <<record.game, record.time, record.prices[Conditions[i]], Conditions[i]>> >>
         \o records_of(record, i + 1)

\* price_retrieval.insert_price_records (the older module): a row only for a
\* condition whose price is not None.
RECURSIVE records_of_not_none(_, _)
records_of_not_none(record, i) ==
    IF i > Len(Conditions) THEN <<>>
    ELSE (IF record.prices[Conditions[i]] # NULL
          THEN << <<record.game, record.time, record.prices[Conditions[i]], Conditions[i]>> >>
          ELSE <<>>) \o records_of_not_none(record, i + 1)

\* Variant of all_records that stops at the first None entry. C22 must fail when
\* insert_price_records reads it.
RECURSIVE all_records_until_none(_)
all_records_until_none(games) ==
    IF games = <<>> \/ Head(games) = None THEN <<>>
    ELSE records_of(Val(Head(games)), 1) \o all_records_until_none(Tail(games))

\* The records of a list of fetch results; None entries are skipped.
RECURSIVE all_records(_)
all_records(games) ==
    IF games = <<>> THEN <<>>
    ELSE (IF Head(games) = None THEN <<>> ELSE records_of(Val(Head(games)), 1))
         \o all_records(Tail(games))

RECURSIVE all_records_not_none(_)
all_records_not_none(games) ==
    IF games = <<>> THEN <<>>
    ELSE records_of_not_none(Val(Head(games)), 1) \o all_records_not_none(Tail(games))

\* executemany("INSERT INTO pricecharting_prices ...", records)
insert_rows(d, records) ==
    LET base == d.sqlite_sequence["pricecharting_prices"]
    IN  [d EXCEPT !.pricecharting_prices = @ \cup
                      {[id |-> base + i, pricecharting_id |-> records[i][1],
                        retrieve_time |-> records[i][2], price |-> records[i][3],
                        condition |-> records[i][4]] : i \in 1..Len(records)},
                  !.sqlite_sequence["pricecharting_prices"] = base + Len(records)]

\* pricecharting_prices.pricecharting_id REFERENCES pricecharting_games(pricecharting_id)
ForeignKeyViolation(d, records) ==
    \E i \in 1..Len(records) :
        ~ \E z \in d.pricecharting_games : z.pricecharting_id = Some(records[i][1])

\* lib/price_retrieval.insert_price_records (PRAGMA foreign_keys = ON): the store
\* after the call; an IntegrityError rolls the whole executemany back.
insert_price_records(d, games) ==
    LET records == all_records(games)
    IN  IF ForeignKeyViolation(d, records) THEN [ok |-> FALSE, db |-> d]
        ELSE [ok |-> TRUE, db |-> insert_rows(d, records)]

\* price_retrieval.insert_price_records (no PRAGMA: foreign keys not enforced)
legacy_insert_price_records(d, games) ==
    [ok |-> TRUE, db |-> insert_rows(d, all_records_not_none(games))]

NullNote(fetched) ==
    IF fetched = None THEN {"none"}
    ELSE IF \A c \in Range(Conditions) : Val(fetched).prices[c] = NULL THEN {"all_null"}
    ELSE {"priced"}

SnapshotCount ==
    Cardinality({<<r.pricecharting_id, r.retrieve_time>> : r \in pricecharting_prices})

\* One pass of the loop of collection.GameLibrary.retrieve_prices: an id the
\* selection returned is fetched and the result is handed to insert_price_records.
RetrievePrices ==
    /\ SnapshotCount < MaxSnapshots
    /\ \E max_prices \in Nullable(0..MaxGames) :
       \E cid \in Range(retrieve_games(DB, now, max_prices)) \ {NULL} :
       \E fetched \in {None} \cup {Some(x) : x \in Snapshots(Val(cid), now)} :
        LET r == insert_price_records(DB, <<fetched>>)
        IN  /\ Commit(r.db)
            /\ last' = Result("retrieve_prices", 0, cid, r.ok, "none", r.ok, NullNote(fetched))
    /\ UNCHANGED <<now, run, report>>

\* A call of insert_price_records on a list of what get_game_prices returned
\* for stored catalog ids: snapshots taken now, and None
MaxRecords == 2
MaxStoredRows == 4
InsertPriceRecords ==
    /\ Cardinality(pricecharting_prices) <= MaxStoredRows
    /\ \E n \in 1..MaxRecords :
       \E games \in [1..n -> {None} \cup
                        {Some(x) : x \in UNION {Snapshots(Val(z.pricecharting_id), now) :
                                      z \in {y \in pricecharting_games :
                                                 y.pricecharting_id # NULL}}}] :
        LET r == insert_price_records(DB, games)
        IN  /\ Commit(r.db)
            /\ last' = Result("insert_price_records", 0, NULL, r.ok, "none", r.ok, games)
    /\ UNCHANGED <<now, run, report>>

\* A call of retrieve_games, with or without an error of the store
RetrieveGames ==
    /\ \E max_prices \in Nullable(0..MaxGames) :
       \E failure \in {"none"} \cup StoreErrors :
        LET r == retrieve_games_call(DB, now, max_prices, failure)
        IN  /\ report' = [op |-> "retrieve_games", failure |-> failure,
                          raised |-> r.raised, result |-> r.result]
            /\ last' = Result("retrieve_games", 0, NULL, failure = "none", "none", FALSE,
                              max_prices)
    /\ UNCHANGED <<physical_games, purchased_games, wanted_games, pricecharting_games,
                   physical_games_pricecharting_games, pricecharting_prices,
                   sqlite_sequence, now, run>>

\* The clock advances.
Tick ==
    /\ \E days \in {STALE_DAYS, STALE_DAYS + 1} :
        /\ now + days <= MaxTime
        /\ now' = now + days
    /\ last' = NoOp
    /\ UNCHANGED <<physical_games, purchased_games, wanted_games, pricecharting_games,
                   physical_games_pricecharting_games, pricecharting_prices, sqlite_sequence,
                   run, report>>

\* ------------------------------------------------------------ current prices
\* The rows of pricecharting_prices of one catalog id and one condition
price_rows(d, cid, condition) ==
    {r \in d.pricecharting_prices : Some(r.pricecharting_id) = cid /\ r.condition = condition}

\* ORDER BY retrieve_time ASC, first row (rows of equal time in rowid order)
first_by_time_asc(rows) ==
    CHOOSE r \in rows : \A q \in rows :
        r.retrieve_time < q.retrieve_time \/ (r.retrieve_time = q.retrieve_time /\ r.id <= q.id)

\* ORDER BY retrieve_time DESC, first row (rows of equal time in rowid order)
first_by_time_desc(rows) ==
    CHOOSE r \in rows : \A q \in rows :
        q.retrieve_time < r.retrieve_time \/ (q.retrieve_time = r.retrieve_time /\ r.id <= q.id)

\* Variant of latest_prices_cte with ORDER BY retrieve_time ASC: the oldest row of
\* each partition. C6 must fail when the queries read it.
latest_prices_cte_asc(d) ==
    {r \in d.pricecharting_prices :
        r = first_by_time_asc(price_rows(d, Some(r.pricecharting_id), r.condition))}

\* The latest_prices CTE of get_collection_value_stats and
\* get_console_distribution, rows with rn = 1: ROW_NUMBER() OVER (PARTITION BY
\* pricecharting_id, condition ORDER BY retrieve_time DESC) = 1
latest_prices_cte(d) ==
    {r \in d.pricecharting_prices :
        r = first_by_time_desc(price_rows(d, Some(r.pricecharting_id), r.condition))}

\* (SELECT price FROM pricecharting_prices pp WHERE pp.pricecharting_id = ? AND
\*  pp.condition = ? ORDER BY pp.retrieve_time DESC LIMIT 1)
latest_price_subquery(d, cid, condition) ==
    LET rows == price_rows(d, cid, condition)
    IN  IF rows = {} THEN NULL ELSE first_by_time_desc(rows).price

\* Python's "float(x) if x else None": None for NULL and for 0
float_if(x) == IF x = NULL \/ x = Some(0) THEN NULL ELSE x

\* Variant of market_rows that compares the conditions as written, without
\* LOWER. C17 must fail when the report reads it.
market_rows_exact_case(d) ==
    LET base == {x \in d.purchased_games \X d.physical_games
                        \X d.physical_games_pricecharting_games \X d.pricecharting_games :
                    /\ x[1].physical_game = x[2].id
                    /\ x[2].id = x[3].physical_game
                    /\ x[3].pricecharting_game = x[4].id}
        matches(x) == {lp \in latest_prices_cte(d) :
                          /\ x[4].pricecharting_id = Some(lp.pricecharting_id)
                          /\ x[1].condition = lp.condition}
        row(x, lp_id, price) ==
            [pg |-> x[1].id, link |-> x[3].id, lp |-> lp_id, name |-> x[2].name,
             console |-> x[2].console, condition |-> x[1].condition,
             pricecharting_id |-> x[4].pricecharting_id, current_price |-> price]
    IN  UNION {IF matches(x) = {} THEN {row(x, 0, NULL)}
               ELSE {row(x, lp.id, lp.price) : lp \in matches(x)} : x \in base}

\* The join of total_market and top_valuable: purchased_games JOIN physical_games
\* JOIN links JOIN pricecharting_games LEFT JOIN latest_prices (rn = 1, same
\* catalog id, LOWER(pg.condition) = LOWER(lp.condition)). One row per match, or
\* one row with a NULL price when nothing matches.
market_rows(d) ==
    LET base == {x \in d.purchased_games \X d.physical_games
                        \X d.physical_games_pricecharting_games \X d.pricecharting_games :
                    /\ x[1].physical_game = x[2].id
                    /\ x[2].id = x[3].physical_game
                    /\ x[3].pricecharting_game = x[4].id}
        matches(x) == {lp \in latest_prices_cte(d) :
                          /\ x[4].pricecharting_id = Some(lp.pricecharting_id)
                          /\ LOWER(x[1].condition) = LOWER(lp.condition)}
        row(x, lp_id, price) ==
            [pg |-> x[1].id, link |-> x[3].id, lp |-> lp_id, name |-> x[2].name,
             console |-> x[2].console, condition |-> x[1].condition,
             pricecharting_id |-> x[4].pricecharting_id, current_price |-> price]
    IN  UNION {IF matches(x) = {} THEN {row(x, 0, NULL)}
               ELSE {row(x, lp.id, lp.price) : lp \in matches(x)} : x \in base}

\* SUM(CAST(price AS DECIMAL)) over rows: NULL prices add nothing
RECURSIVE SumPrices(_)
SumPrices(rows) ==
    IF rows = {} THEN 0
    ELSE LET r == CHOOSE x \in rows : TRUE
         IN  (IF r.current_price = NULL THEN 0 ELSE Val(r.current_price)) + SumPrices(rows \ {r})

\* get_collection_value_stats: total_market
total_market(d) == SumPrices(market_rows(d))

\* Descending sort by current_price, rows of equal price in scan order
RECURSIVE OrderByPriceDesc(_)
OrderByPriceDesc(rows) ==
    IF rows = {} THEN <<>>
    ELSE LET key(r) == IF r.current_price = NULL THEN -1 ELSE Val(r.current_price)
             first == CHOOSE r \in rows : \A q \in rows :
                          \/ key(r) > key(q)
                          \/ (key(r) = key(q) /\ <<r.pg, r.link, r.lp>> = <<q.pg, q.link, q.lp>>)
                          \/ (key(r) = key(q) /\ r.pg < q.pg)
                          \/ (key(r) = key(q) /\ r.pg = q.pg /\ r.link < q.link)
                          \/ (key(r) = key(q) /\ r.pg = q.pg /\ r.link = q.link /\ r.lp < q.lp)
         IN  <<first>> \o OrderByPriceDesc(rows \ {first})

\* Variant of top_valuable without "WHERE lp.price IS NOT NULL". C18 must fail
\* when the report reads it.
top_valuable_with_null(d) ==
    Limit(OrderByPriceDesc(market_rows(d)), 5)

\* get_collection_value_stats: top_valuable (WHERE lp.price IS NOT NULL ORDER BY
\* price DESC LIMIT 5)
TOP_VALUABLE_LIMIT == 5
top_valuable(d) ==
    Limit(OrderByPriceDesc({r \in market_rows(d) : r.current_price # NULL}), TOP_VALUABLE_LIMIT)

\* get_console_distribution: the most_expensive CTE row with rn = 1 of a console
\* (inner JOIN latest_prices: only games with a matching latest row; a NULL
\* price sorts after every number), then "float(row[5]) if row[5] else None".
\* NULL when the console has no such row. game_count and percentage of the
\* result are not part of this value.
most_expensive(d, console) ==
    LET rows == {r \in market_rows(d) : r.console = console /\ r.lp # 0}
    IN  IF rows = {} THEN NULL
        ELSE LET me == OrderByPriceDesc(rows)[1]
             IN  Some([name |-> me.name, condition |-> me.condition,
                       most_expensive_price |-> float_if(me.current_price)])

\* search_games (and the query of GameLibrary.search_library): one result per
\* physical game, current_prices from the three subqueries on the catalog row
\* the game is linked to
search_games(d) ==
    {[id |-> p.id, name |-> p.name,
      pricecharting_id |-> pc_id,
      current_prices |-> [c \in Range(Conditions) |-> float_if(latest_price_subquery(d, pc_id, c))],
      is_wanted |-> wanted(d, p.id)] :
        <<p, pc_id>> \in {x \in d.physical_games \X Nullable(CatalogIds) :
            \/ \E j \in d.physical_games_pricecharting_games : \E z \in d.pricecharting_games :
                  j.physical_game = x[1].id /\ j.pricecharting_game = z.id
                  /\ z.pricecharting_id = x[2]
            \/ /\ x[2] = NULL
               /\ ~ \E j \in d.physical_games_pricecharting_games : \E z \in d.pricecharting_games :
                     j.physical_game = x[1].id /\ j.pricecharting_game = z.id}}

\* The latest_prices view: for every physical game (base_games holds them all:
\* the LEFT JOIN on purchased_games filters nothing), its links and catalog rows,
\* LEFT JOIN pricecharting_prices, GROUP BY g.id, p.condition. max(retrieve_time)
\* makes the bare columns (pricecharting_id, price) those of the newest row of
\* the group. A game whose catalog id has no price row gives one row of NULLs.
latest_prices(d) ==
    LET joined(g) == {x \in d.physical_games_pricecharting_games \X d.pricecharting_games :
                         x[1].physical_game = g.id /\ x[1].pricecharting_game = x[2].id}
        priced(g) == {x \in joined(g) \X d.pricecharting_prices :
                         x[1][2].pricecharting_id = Some(x[2].pricecharting_id)}
        unpriced(g) == {x \in joined(g) :
                         ~ \E r \in d.pricecharting_prices :
                               x[2].pricecharting_id = Some(r.pricecharting_id)}
        group(g, c) == {x[2] : x \in {y \in priced(g) : y[2].condition = c}}
        newest(g, c) == first_by_time_desc(group(g, c))
    IN  {[g |-> g.id, name |-> g.name, console |-> g.console,
          pricecharting_id |-> Some(newest(g, c).pricecharting_id),
          retrieve_time |-> Some(newest(g, c).retrieve_time),
          price |-> newest(g, c).price, condition |-> Some(c)] :
            <<g, c>> \in {gc \in d.physical_games \X Range(Conditions) : group(gc[1], gc[2]) # {}}}
        \cup
        {[g |-> g.id, name |-> g.name, console |-> g.console,
          pricecharting_id |-> (CHOOSE x \in unpriced(g) : \A y \in unpriced(g) : x[1].id <= y[1].id)[2].pricecharting_id,
          retrieve_time |-> NULL, price |-> NULL, condition |-> NULL] :
            g \in {h \in d.physical_games : unpriced(h) # {}}}

\* MAX(CASE WHEN lp.condition = c THEN lp.price END): the largest non-null price
\* among the rows of condition c, NULL when there is none
MaxPrice(rows, c) ==
    LET prices == {Val(r.price) : r \in {q \in rows : q.condition = Some(c) /\ q.price # NULL}}
    IN  IF prices = {} THEN NULL ELSE Some(CHOOSE m \in prices : \A n \in prices : n <= m)

\* lib/collection_utils.get_wishlist_items without a search term: one item per
\* wanted game and catalog id, its prices read from latest_prices
get_wishlist_items(d) ==
    {[id |-> x[1].id, name |-> x[1].name, console |-> x[1].console, pricecharting_id |-> x[2],
      price |-> [c \in Range(Conditions) |->
                    MaxPrice({lp \in latest_prices(d) : x[2] # NULL /\ lp.pricecharting_id = x[2]}, c)]] :
        x \in {y \in d.physical_games \X Nullable(CatalogIds) :
            /\ wanted(d, y[1].id)
            /\ \/ \E j \in d.physical_games_pricecharting_games : \E z \in d.pricecharting_games :
                    j.physical_game = y[1].id /\ j.pricecharting_game = z.id
                    /\ z.pricecharting_id = y[2]
               \/ /\ y[2] = NULL
                  /\ ~ \E j \in d.physical_games_pricecharting_games : \E z \in d.pricecharting_games :
                        j.physical_game = y[1].id /\ j.pricecharting_game = z.id}}

\* GameLibrary.view_wishlist: the same items, prices from the three subqueries
view_wishlist(d) ==
    {[id |-> x.id, name |-> x.name, console |-> x.console, pricecharting_id |-> x.pricecharting_id,
      price |-> [c \in Range(Conditions) |-> latest_price_subquery(d, x.pricecharting_id, c)]] :
        x \in get_wishlist_items(d)}

\* --------------------------------------------- the older command-line program
\* price_retrieval.retrieve_games (the older module) at time t: one entry per row
\* of latest_prices whose retrieve_time is NULL or older than 7 days
legacy_retrieve_games(d, t, max_prices) ==
    LET ordered == OrderByName({r \in latest_prices(d) :
                        r.retrieve_time = NULL \/ Val(r.retrieve_time) + STALE_DAYS < t})
        ids == [i \in 1..Len(ordered) |-> ordered[i].pricecharting_id]
    IN  IF Truthy(max_prices) THEN Limit(ids, Val(max_prices)) ELSE ids

\* GameLibrary.retrieve_prices, "Found N games eligible for price updates":
\* SELECT COUNT(DISTINCT pricecharting_id) FROM latest_prices WHERE retrieve_time
\* < datetime('now', '-7 days') OR retrieve_time IS NULL (COUNT skips NULL)
total_eligible(d, t) ==
    Cardinality({r.pricecharting_id :
                    r \in {q \in latest_prices(d) :
                              q.retrieve_time = NULL \/ Val(q.retrieve_time) + STALE_DAYS < t}}
                \ {NULL})

\* The start of GameLibrary.retrieve_prices with an empty answer to the
\* maximum: the count is printed and the selection is read. The selection
\* of the older price_retrieval.retrieve_games is read beside it.
CountEligible ==
    /\ report' = [op |-> "retrieve_prices", total_eligible |-> total_eligible(DB, now),
                  games |-> retrieve_games(DB, now, NULL),
                  legacy_games |-> legacy_retrieve_games(DB, now, NULL)]
    /\ last' = Result("retrieve_prices", 0, NULL, TRUE, "none", FALSE, {})
    /\ UNCHANGED <<physical_games, purchased_games, wanted_games, pricecharting_games,
                   physical_games_pricecharting_games, pricecharting_prices,
                   sqlite_sequence, now, run>>

\* A call of the older price_retrieval.retrieve_games
LegacyRetrieveGames ==
    /\ \E max_prices \in Nullable(0..MaxGames) :
        /\ report' = [op |-> "legacy_retrieve_games", failure |-> "none", raised |-> "none",
                      result |-> legacy_retrieve_games(DB, now, max_prices)]
        /\ last' = Result("legacy_retrieve_games", 0, NULL, TRUE, "none", FALSE, max_prices)
    /\ UNCHANGED <<physical_games, purchased_games, wanted_games, pricecharting_games,
                   physical_games_pricecharting_games, pricecharting_prices,
                   sqlite_sequence, now, run>>

\* library.GameLibrary.retrieve_prices with a batch of one id: process_batch
\* fetches it (a failed request goes to the failed list and records nothing),
\* then price_retrieval.insert_price_records stores the successful snapshot.
LegacyRetrievePrices ==
    /\ SnapshotCount < MaxSnapshots
    /\ \E max_prices \in Nullable(0..MaxGames) :
       \E cid \in Range(legacy_retrieve_games(DB, now, max_prices)) \ {NULL} :
       \E fetched \in {None} \cup {Some(x) : x \in Snapshots(Val(cid), now)} :
        LET r == IF fetched = None THEN [ok |-> TRUE, db |-> DB]
                 ELSE legacy_insert_price_records(DB, <<fetched>>)
        IN  /\ Commit(r.db)
            /\ last' = Result("legacy_retrieve_prices", 0, cid, r.ok, "none", r.ok, NullNote(fetched))
    /\ UNCHANGED <<now, run, report>>

\* library.GameLibrary.add_game: a physical game, a catalog row without a
\* pricecharting_id, and the link between them (the purchase columns of the
\* older physical_games table are not part of the state).
library_add_game(d, title, console) ==
    LET physical_id == NextId(d, "physical_games")
        d1 == insert_physical_game(d, physical_id, title, console)
        pricecharting_id == NextId(d1, "pricecharting_games")
        d2 == [d1 EXCEPT !.pricecharting_games = @ \cup
                             {[id |-> pricecharting_id, pricecharting_id |-> NULL,
                               name |-> title, console |-> console]},
                         !.sqlite_sequence["pricecharting_games"] = pricecharting_id]
        link_id == NextId(d2, "physical_games_pricecharting_games")
    IN  [d2 EXCEPT !.physical_games_pricecharting_games = @ \cup
                       {[id |-> link_id, physical_game |-> physical_id,
                         pricecharting_game |-> pricecharting_id]},
                   !.sqlite_sequence["physical_games_pricecharting_games"] = link_id]

LibraryAddGame ==
    /\ sqlite_sequence["physical_games"] < MaxGames
    /\ \E title \in Names : \E console \in Consoles :
        /\ Commit(library_add_game(DB, title, console))
        /\ last' = Result("library_add_game", NextId(DB, "physical_games"), NULL, TRUE,
                           "none", TRUE, {})
    /\ UNCHANGED <<now, run, report>>

\* Variant of unidentified_games without "WHERE pricecharting_id IS NULL": every
\* catalog row is resolved again. C11 must fail when retrieve_ids reads it.
unidentified_games_all(d) ==
    OrderByName({[g |-> z.id, name |-> z.name, console |-> z.console] : z \in d.pricecharting_games})

\* lib/id_retrieval.retrieve_games: the catalog rows without a pricecharting_id,
\* ORDER BY name ASC
unidentified_games(d) ==
    LET rows == {[g |-> z.id, name |-> z.name, console |-> z.console] :
                    z \in {y \in d.pricecharting_games : y.pricecharting_id = NULL}}
    IN  OrderByName(rows)

\* REPLACE INTO pricecharting_games (pricecharting_id, url, id, name, console):
\* the rows that conflict on id (PRIMARY KEY) or on pricecharting_id (UNIQUE)
\* are deleted, then the row is inserted. Foreign keys are not enforced on this
\* connection, so no other table changes.
replace_pricecharting_game(d, record) ==
    [d EXCEPT !.pricecharting_games =
        {z \in @ : z.id # record.id /\ z.pricecharting_id # Some(record.pricecharting_id)}
        \cup {[id |-> record.id, pricecharting_id |-> Some(record.pricecharting_id),
               name |-> record.name, console |-> record.console]}]

\* lib/id_retrieval.insert_game_ids: executemany of the REPLACE over the records
RECURSIVE insert_game_ids(_, _)
insert_game_ids(d, games) ==
    IF games = <<>> THEN d
    ELSE insert_game_ids(replace_pricecharting_game(d, Head(games)), Tail(games))

\* The records get_game_id returned for the games of a list: found[g] is the id
\* the site gave for catalog row g, NULL when the lookup raised ValueError
RECURSIVE retrieved_ids(_, _)
retrieved_ids(games, found) ==
    IF games = <<>> THEN <<>>
    ELSE (IF found[Head(games).g] = NULL THEN <<>>
          ELSE <<[id |-> Head(games).g, name |-> Head(games).name,
                  console |-> Head(games).console,
                  pricecharting_id |-> Val(found[Head(games).g])]>>)
         \o retrieved_ids(Tail(games), found)

\* library.GameLibrary.retrieve_ids
RetrieveIds ==
    /\ unidentified_games(DB) # <<>>
    /\ \E found \in [{x.g : x \in Range(unidentified_games(DB))} -> Nullable(CatalogIds)] :
        LET retrieved == retrieved_ids(unidentified_games(DB), found)
        IN  /\ Commit(IF retrieved = <<>> THEN DB ELSE insert_game_ids(DB, retrieved))
            /\ last' = Result("retrieve_ids", 0, NULL, TRUE, "none", TRUE, {})
    /\ UNCHANGED <<now, run, report>>

\* ------------------------------------------------------------ the edit paths
\* An updates dict over the keys 'name' and 'console': NULL stands for a key
\* that is absent (updates.get(key) is None), Some(v) for key: v.
EditedConsoles == {1, 2}
Updates == [name : Nullable(Names), console : Nullable(EditedConsoles)]
NameUpdates == {u \in Updates : u.name # NULL /\ u.console = NULL}
Empty(updates) == updates.name = NULL /\ updates.console = NULL

\* COALESCE(?, column)
COALESCE(x, y) == IF x # NULL THEN Val(x) ELSE y

\* UPDATE physical_games SET <the keys of updates> WHERE id = ?
update_physical_game(d, game_id, updates) ==
    [d EXCEPT !.physical_games =
        {IF g.id = game_id
         THEN [g EXCEPT !.name = COALESCE(updates.name, @),
                        !.console = COALESCE(updates.console, @)]
         ELSE g : g \in @}]

\* Variant of update_pricecharting_games without the WHERE clause: every catalog
\* row takes the new values. C20 must fail when the edit paths run it.
update_pricecharting_games_all(d, game_id, updates) ==
    [d EXCEPT !.pricecharting_games =
        {[z EXCEPT !.name = COALESCE(updates.name, @),
                   !.console = COALESCE(updates.console, @)] : z \in @}]

\* UPDATE pricecharting_games SET name = COALESCE(?, name), console =
\* COALESCE(?, console) WHERE id IN (SELECT pricecharting_game FROM
\* physical_games_pricecharting_games WHERE physical_game = ?)
update_pricecharting_games(d, game_id, updates) ==
    [d EXCEPT !.pricecharting_games =
        {IF \E j \in d.physical_games_pricecharting_games :
                j.physical_game = game_id /\ j.pricecharting_game = z.id
         THEN [z EXCEPT !.name = COALESCE(updates.name, @),
                        !.console = COALESCE(updates.console, @)]
         ELSE z : z \in @}]

\* lib/collection_utils.update_wishlist_item: nothing for an empty dict, else
\* the UPDATE of physical_games and, with 'name' or 'console' among the keys,
\* the UPDATE of the catalog rows the game is linked to
update_wishlist_item(d, game_id, updates) ==
    IF Empty(updates) THEN d
    ELSE update_pricecharting_games(update_physical_game(d, game_id, updates), game_id, updates)

\* The purchase fields the edit of search_library asks for when the selected
\* row is not a wishlist row (source is not part of the state)
PurchaseUpdates == [condition : Nullable(PurchaseConditions), price : Nullable(PurchasePrices),
                    acquisition_date : Nullable(Dates)]
NoPurchaseUpdates == [condition |-> NULL, price |-> NULL, acquisition_date |-> NULL]
\* The answers tried: every purchase prompt left empty, or every one answered
PurchaseAnswers == {u \in PurchaseUpdates :
                       u = NoPurchaseUpdates
                       \/ (u.condition # NULL /\ u.price # NULL /\ u.acquisition_date # NULL)}

\* UPDATE purchased_games SET <the keys of purchase_updates> WHERE physical_game = ?
update_purchased_games(d, game_id, purchase_updates) ==
    [d EXCEPT !.purchased_games =
        {IF pg.physical_game = game_id
         THEN [pg EXCEPT !.condition = COALESCE(purchase_updates.condition, @),
                         !.price = COALESCE(purchase_updates.price, @),
                         !.acquisition_date = COALESCE(purchase_updates.acquisition_date, @)]
         ELSE pg : pg \in @}]

\* collection.GameLibrary.search_library, the edit of the selected game (the
\* answers after 'Delete game?' and 'Remove from wishlist?' were declined).
\* An empty answer leaves its key out of the dict.
search_library_edit(d, game_id, physical_updates, purchase_updates) ==
    LET asked == IF wanted(d, game_id) THEN NoPurchaseUpdates ELSE purchase_updates
        d1 == IF Empty(physical_updates) THEN d
              ELSE update_physical_game(d, game_id, physical_updates)
        d2 == IF asked # NoPurchaseUpdates THEN update_purchased_games(d1, game_id, asked) ELSE d1
    IN  IF Empty(physical_updates) /\ asked = NoPurchaseUpdates THEN d
        ELSE IF ~Empty(physical_updates) THEN update_pricecharting_games(d2, game_id, physical_updates)
        ELSE d2

\* collection.GameLibrary.view_wishlist, the edit of the selected wishlist game
view_wishlist_edit(d, game_id, physical_updates) ==
    IF Empty(physical_updates) THEN d
    ELSE update_pricecharting_games(update_physical_game(d, game_id, physical_updates),
                                    game_id, physical_updates)

\* note of an edit: the dict it was given
UpdateWishlist(inputs) ==
    /\ \E g \in physical_games : \E updates \in inputs :
        /\ Commit(update_wishlist_item(DB, g.id, updates))
        /\ last' = Result("update_wishlist_item", g.id, NULL, TRUE, "none", TRUE, updates)
    /\ UNCHANGED <<now, run, report>>

UpdateWishlistItem == UpdateWishlist(NameUpdates)
UpdateWishlistItemFields == UpdateWishlist(Updates)

SearchLibraryEdit ==
    /\ \E g \in physical_games : \E physical_updates \in Updates :
       \E purchase_updates \in PurchaseAnswers :
        /\ Commit(search_library_edit(DB, g.id, physical_updates, purchase_updates))
        /\ last' = Result("search_library_edit", g.id, NULL, TRUE, "none", TRUE, physical_updates)
    /\ UNCHANGED <<now, run, report>>

ViewWishlistEdit ==
    /\ \E g \in physical_games : \E physical_updates \in Updates :
        /\ wanted(DB, g.id)
        /\ Commit(view_wishlist_edit(DB, g.id, physical_updates))
        /\ last' = Result("view_wishlist_edit", g.id, NULL, TRUE, "none", TRUE, physical_updates)
    /\ UNCHANGED <<now, run, report>>

\* ------------------------------------------------------- fetch and resolve
\* A call of get_game_prices on a response of the site
GetGamePrices ==
    /\ \E game_id \in CatalogIds : \E response \in PriceResponses :
        report' = [op |-> "get_game_prices", game_id |-> game_id, response |-> response,
                   result |-> get_game_prices(game_id, response, now)]
    /\ UNCHANGED <<physical_games, purchased_games, wanted_games, pricecharting_games,
                   physical_games_pricecharting_games, pricecharting_prices, sqlite_sequence,
                   now, last, run>>

\* A call of get_game_id on a response of the site
GetGameId ==
    /\ \E game_name \in Names : \E system_name \in Consoles : \E response \in IdResponses :
        report' = [op |-> "get_game_id", game_name |-> game_name, system_name |-> system_name,
                   response |-> response, requests |-> 1,
                   result |-> get_game_id(-1, game_name, system_name, response)]
    /\ UNCHANGED <<physical_games, purchased_games, wanted_games, pricecharting_games,
                   physical_games_pricecharting_games, pricecharting_prices, sqlite_sequence,
                   now, last, run>>

\* collection.GameLibrary.add_game up to the result of get_game_id: the prompts
\* are answered, the id is looked up. An identity goes on to the inserts; a
\* ValueError goes to the (e)dit / (c)ontinue question; any other exception is
\* caught neither by add_game nor by main, and the program ends.
AddGamePrompt ==
    /\ run.pc \in {"idle", "prompt"}
    /\ sqlite_sequence["physical_games"] < MaxGames
    /\ \E game \in GameInputs : \E response \in IdResponses :
        LET r == get_game_id(-1, game.title, game.console, response)
        IN  /\ run' = [op |-> "add_game",
                       pc |-> IF r.raised = NULL THEN "store"
                              ELSE IF Val(r.raised).type = "ValueError" THEN "choice"
                              ELSE "terminated",
                       game |-> game, id_data |-> r.value]
            /\ report' = [op |-> "get_game_id", game_name |-> game.title,
                          system_name |-> game.console, response |-> response,
                          requests |-> 1, result |-> r]
    /\ UNCHANGED <<physical_games, purchased_games, wanted_games, pricecharting_games,
                   physical_games_pricecharting_games, pricecharting_prices, sqlite_sequence,
                   now, last>>

\* The answer to "(e)dit the game info, or (c)ontinue without price tracking?"
AddGameChoice ==
    /\ run.pc = "choice"
    /\ \E choice \in {"c", "e", "other"} :
        run' = IF choice = "c" THEN [run EXCEPT !.pc = "store", !.id_data = None]
               ELSE IF choice = "e" THEN [run EXCEPT !.pc = "prompt"]
               ELSE Idle
    /\ UNCHANGED <<physical_games, purchased_games, wanted_games, pricecharting_games,
                   physical_games_pricecharting_games, pricecharting_prices, sqlite_sequence,
                   now, last, report>>

\* The inserts of add_game for the game and identity the prompts left
AddGameStore ==
    /\ run.pc = "store"
    /\ \E failAt \in FailPoints(run.id_data) :
        LET r == GameLibrary_add_game(DB, run.game, run.id_data, failAt)
        IN  /\ (failAt = "catalog" => StoredNote(DB, run.id_data) = {})
            /\ Commit(r.db)
            /\ last' = Result("add_game", r.game_id, CidOf(run.id_data), r.success,
                               failAt, r.success, StoredNote(DB, run.id_data))
    /\ run' = Idle
    /\ UNCHANGED <<now, report>>

\* collection.GameLibrary.want_game after its prompts: the statements of
\* add_game_to_wishlist inside "with self._db_connection() as conn"; an
\* sqlite3.Error closes the connection without a commit.
GameLibrary_want_game(d, title, console, id_data, failAt) ==
    LET r == add_game_to_wishlist(d, title, console, id_data, failAt)
    IN  IF r.success THEN r ELSE [success |-> FALSE, db |-> d, game_id |-> r.game_id]

\* The add flow of add_game and want_game, prompt by prompt. run.pc is
\* "collecting" at the prompts for the game, "resolving" at the call of
\* get_game_id, "failed" at the (e)dit / (c)ontinue question, "confirmed" at the
\* inserts; "goodbye" is main's exit on end of input, "terminated" the end of
\* the program on an exception nobody catches.
AddFlowStart ==
    /\ run.pc = "idle"
    /\ sqlite_sequence["physical_games"] < MaxGames
    /\ \E op \in {"add_game", "want_game"} :
        run' = [op |-> op, pc |-> "collecting", previous_game |-> NULL,
                game |-> NULL, id_data |-> NULL]
    /\ last' = NoOp
    /\ UNCHANGED <<physical_games, purchased_games, wanted_games, pricecharting_games,
                   physical_games_pricecharting_games, pricecharting_prices, sqlite_sequence,
                   now, report>>

\* The prompts: end of input returns; an empty answer takes the previous
\* answer when the prompts are asked again (the first time every answer is
\* given). want_game asks for title and console only.
Blank == 0
AddFlowCollect ==
    /\ run.pc = "collecting"
    /\ \/ /\ run' = Idle
          /\ last' = Result(run.op, 0, NULL, FALSE, "none", FALSE, "EOFError")
       \/ \E title \in Names \cup (IF run.previous_game = NULL THEN {} ELSE {Blank}) :
          \E answers \in GameInputs :
            LET given == IF title = Blank THEN Val(run.previous_game).title ELSE title
            IN  /\ run' = [run EXCEPT !.pc = "resolving",
                                      !.game = Some([answers EXCEPT !.title = given])]
                /\ last' = Result(run.op, 0, NULL, TRUE, "none", FALSE, <<"answers", title>>)
    /\ UNCHANGED <<physical_games, purchased_games, wanted_games, pricecharting_games,
                   physical_games_pricecharting_games, pricecharting_prices, sqlite_sequence,
                   now, report>>

\* get_game_id: an identity goes on to the inserts, a ValueError to the
\* question, any other exception ends the program
AddFlowResolve ==
    /\ run.pc = "resolving"
    /\ \E response \in IdResponses :
        LET r == get_game_id(-1, Val(run.game).title, Val(run.game).console, response)
        IN  /\ run' = [run EXCEPT !.pc = IF r.raised = NULL THEN "confirmed"
                                         ELSE IF Val(r.raised).type = "ValueError" THEN "failed"
                                         ELSE "terminated",
                                  !.id_data = r.value]
            /\ last' = Result(run.op, 0, NULL, r.raised = NULL, "none", FALSE,
                              <<"get_game_id", response>>)
    /\ UNCHANGED <<physical_games, purchased_games, wanted_games, pricecharting_games,
                   physical_games_pricecharting_games, pricecharting_prices, sqlite_sequence,
                   now, report>>

\* The answer to the question, lowered: 'c', 'e', anything else, end of input
AddFlowChoice ==
    /\ run.pc = "failed"
    /\ \E choice \in {"c", "e", "x", "EOFError"} :
        /\ run' = IF choice = "c" THEN [run EXCEPT !.pc = "confirmed", !.id_data = None]
                  ELSE IF choice = "e"
                  THEN [run EXCEPT !.pc = "collecting", !.previous_game = run.game]
                  ELSE IF choice = "EOFError" THEN [run EXCEPT !.pc = "goodbye"]
                  ELSE Idle
        /\ last' = Result(run.op, 0, NULL, TRUE, "none", FALSE, <<"choice", choice>>)
    /\ UNCHANGED <<physical_games, purchased_games, wanted_games, pricecharting_games,
                   physical_games_pricecharting_games, pricecharting_prices, sqlite_sequence,
                   now, report>>

\* The inserts for the game and identity the prompts left
AddFlowStore ==
    /\ run.pc = "confirmed"
    /\ \E failAt \in FailPoints(run.id_data) :
        LET game == Val(run.game)
            r == IF run.op = "add_game"
                 THEN GameLibrary_add_game(DB, game, run.id_data, failAt)
                 ELSE GameLibrary_want_game(DB, game.title, game.console, run.id_data, failAt)
        IN  /\ (failAt = "catalog" => StoredNote(DB, run.id_data) = {})
            /\ Commit(r.db)
            /\ last' = Result(run.op, r.game_id, CidOf(run.id_data), r.success,
                               failAt, r.success, <<"store", game.title>>)
    /\ run' = Idle
    /\ UNCHANGED <<now, report>>

\* The program is started again
AddFlowRestart ==
    /\ run.pc \in {"goodbye", "terminated"}
    /\ run' = Idle
    /\ last' = NoOp
    /\ UNCHANGED <<physical_games, purchased_games, wanted_games, pricecharting_games,
                   physical_games_pricecharting_games, pricecharting_prices, sqlite_sequence,
                   now, report>>

\* ---------------------------------------------------------------- batch runs
\* The responses a run meets: a page without prices, a page with a 'complete'
\* price, a page whose 'complete' text is no number, and a refused connection
NoPricePage == [c \in Range(Conditions) |-> NULL]
RunResponses ==
    {[transport |-> "ok", page |-> NoPricePage],
     [transport |-> "ok", page |-> [NoPricePage EXCEPT !["complete"] = Some("$10")]],
     [transport |-> "ok", page |-> [NoPricePage EXCEPT !["complete"] = Some("N/A")]],
     [transport |-> "ConnectionError", page |-> NoPricePage]}

\* collection.GameLibrary.retrieve_prices before its loop: i is the index of the
\* next item (from 1); requests lists the ids handed to get_game_prices,
\* counted the ids added to processed and saved the ids whose snapshot
\* insert_price_records wrote, all in order
retrieve_prices_start(games) ==
    [op |-> "retrieve_prices", pc |-> "loop", games |-> games, i |-> 1, processed |-> 0,
     all_failed |-> <<>>, requests |-> <<>>, counted |-> <<>>, saved |-> <<>>]

\* One pass of that loop on games[i]: get_game_prices; a ValueError goes to
\* failed; any returned value, None included, goes to successful, which is
\* handed to insert_price_records; processed grows when the insert returns, a
\* sqlite3.Error (write_fails) is printed and nothing else. The id of a catalog
\* row that was never resolved is None: its snapshot breaks the NOT NULL of
\* pricecharting_prices.pricecharting_id, which is a sqlite3.Error too
retrieve_prices_pass(r, d, response, write_fails, t) ==
    LET game == r.games[r.i]
        fetched == get_game_prices(IF game = NULL THEN NULL ELSE Val(game), response, t)
        successful == IF fetched.raised = NULL THEN <<fetched.value>> ELSE <<>>
        failed == IF fetched.raised = NULL THEN <<>>
                  ELSE <<[game |-> game, message |-> Val(fetched.raised)]>>
        not_null == game = NULL /\ fetched.value # None
        written == IF successful = <<>> \/ write_fails \/ not_null
                   THEN [ok |-> FALSE, db |-> d]
                   ELSE insert_price_records(d, successful)
    IN  [run |-> [r EXCEPT !.i = @ + 1,
                           !.processed = IF written.ok THEN @ + Len(successful) ELSE @,
                           !.all_failed = @ \o failed,
                           !.requests = Append(@, game),
                           !.counted = IF written.ok THEN Append(@, game) ELSE @,
                           !.saved = IF written.ok /\ fetched.value # None
                                     THEN Append(@, game) ELSE @],
         db |-> written.db]

\* The command starts: the selection is read; an empty selection returns at once
RetrievePricesStart ==
    /\ run.pc = "idle"
    /\ SnapshotCount < MaxSnapshots
    /\ \E max_prices \in Nullable(0..MaxGames) :
        LET games == retrieve_games(DB, now, max_prices)
        IN  /\ games # <<>>
            /\ run' = retrieve_prices_start(games)
    /\ last' = NoOp
    /\ UNCHANGED <<physical_games, purchased_games, wanted_games, pricecharting_games,
                   physical_games_pricecharting_games, pricecharting_prices, sqlite_sequence,
                   now, report>>

RetrievePricesPass ==
    /\ run.op = "retrieve_prices" /\ run.pc = "loop"
    /\ run.i <= Len(run.games)
    /\ \E response \in RunResponses : \E write_fails \in BOOLEAN :
        LET p == retrieve_prices_pass(run, DB, response, write_fails, now)
        IN  /\ Commit(p.db)
            /\ run' = p.run
    /\ UNCHANGED <<now, last, report>>

\* "Completed: processed/len(games)" and the failure list
RetrievePricesTally ==
    /\ run.op = "retrieve_prices" /\ run.pc = "loop"
    /\ run.i > Len(run.games)
    /\ run' = [run EXCEPT !.pc = "done"]
    /\ UNCHANGED <<physical_games, purchased_games, wanted_games, pricecharting_games,
                   physical_games_pricecharting_games, pricecharting_prices, sqlite_sequence,
                   now, last, report>>

\* retrieve_prices.retrieve_games (the script) at time t: one entry per row of
\* latest_prices whose retrieve_time is older than t; no DISTINCT, and a NULL
\* retrieve_time fails the comparison
script_retrieve_games(d, t, max_prices) ==
    LET ordered == OrderByName({r \in latest_prices(d) :
                        r.retrieve_time # NULL /\ Val(r.retrieve_time) < t})
        ids == [i \in 1..Len(ordered) |-> ordered[i].pricecharting_id]
    IN  IF Truthy(max_prices) THEN Limit(ids, Val(max_prices)) ELSE ids

\* retrieve_prices.process_batch: responses[k] is what the site answers for games[k]
RECURSIVE script_process_batch(_, _, _)
script_process_batch(games, responses, t) ==
    IF games = <<>> THEN [successful |-> <<>>, failed |-> <<>>]
    ELSE LET fetched == script_get_game_prices(Val(Head(games)), Head(responses), t)
             rest == script_process_batch(Tail(games), Tail(responses), t)
         IN  IF fetched.raised = NULL
             THEN [successful |-> <<fetched.value>> \o rest.successful, failed |-> rest.failed]
             ELSE [successful |-> rest.successful,
                   failed |-> <<[game |-> Head(games), message |-> Val(fetched.raised)]>>
                              \o rest.failed]

\* retrieve_prices.insert_price_records: one row per snapshot and condition,
\* None prices included; foreign keys are not enforced on this connection
RECURSIVE script_records(_)
script_records(games) ==
    IF games = <<>> THEN <<>>
    ELSE [i \in 1..Len(Conditions) |->
             <<Val(Head(games)).game, Val(Head(games)).time,
               Val(Head(games)).prices[Conditions[i]], Conditions[i]>>]
         \o script_records(Tail(games))
script_insert_price_records(d, games) == insert_rows(d, script_records(games))

\* --batch-size
BatchSizes == {1, 2}

\* retrieve_prices.main before its loop
script_main_start(games, batch_size) ==
    [op |-> "retrieve_prices.py", pc |-> "loop", games |-> games, i |-> 1, processed |-> 0,
     all_failed |-> <<>>, requests |-> <<>>, counted |-> <<>>, saved |-> <<>>,
     batch_size |-> batch_size]

\* games[i:i + batch_size]
Batch(r) ==
    SubSeq(r.games, r.i, IF r.i + r.batch_size - 1 < Len(r.games)
                         THEN r.i + r.batch_size - 1 ELSE Len(r.games))

\* One pass of the loop of retrieve_prices.main on one batch
script_main_pass(r, d, responses, write_fails, t) ==
    LET b == script_process_batch(Batch(r), responses, t)
        saved == b.successful # <<>> /\ ~write_fails
    IN  [run |-> [r EXCEPT !.i = @ + r.batch_size,
                           !.processed = IF saved THEN @ + Len(b.successful) ELSE @,
                           !.all_failed = @ \o b.failed,
                           !.requests = @ \o Batch(r),
                           !.counted = IF saved
                                       THEN @ \o [k \in 1..Len(b.successful) |->
                                                     Some(Val(b.successful[k]).game)]
                                       ELSE @,
                           !.saved = IF saved
                                     THEN @ \o [k \in 1..Len(b.successful) |->
                                                   Some(Val(b.successful[k]).game)]
                                     ELSE @],
         db |-> IF saved THEN script_insert_price_records(d, b.successful) ELSE d]

ScriptStart ==
    /\ run.pc = "idle"
    /\ SnapshotCount < MaxSnapshots
    /\ \E max_prices \in {NULL, Some(2)} : \E batch_size \in BatchSizes :
        LET games == script_retrieve_games(DB, now, max_prices)
        IN  /\ games # <<>>
            /\ run' = script_main_start(games, batch_size)
    /\ last' = NoOp
    /\ UNCHANGED <<physical_games, purchased_games, wanted_games, pricecharting_games,
                   physical_games_pricecharting_games, pricecharting_prices, sqlite_sequence,
                   now, report>>

ScriptPass ==
    /\ run.op = "retrieve_prices.py" /\ run.pc = "loop"
    /\ run.i <= Len(run.games)
    /\ \E responses \in [1..Len(Batch(run)) -> RunResponses] : \E write_fails \in BOOLEAN :
        LET p == script_main_pass(run, DB, responses, write_fails, now)
        IN  /\ Commit(p.db)
            /\ run' = p.run
    /\ UNCHANGED <<now, last, report>>

ScriptTally ==
    /\ run.op = "retrieve_prices.py" /\ run.pc = "loop"
    /\ run.i > Len(run.games)
    /\ run' = [run EXCEPT !.pc = "done"]
    /\ UNCHANGED <<physical_games, purchased_games, wanted_games, pricecharting_games,
                   physical_games_pricecharting_games, pricecharting_prices, sqlite_sequence,
                   now, last, report>>

\* What the site answers in an identifier run: a product page with an id, a
\* page without the element, a refused connection
RunIdResponses ==
    {[transport |-> "ok", product_name |-> Some(Some(cid))] : cid \in CatalogIds}
    \cup {[transport |-> "ok", product_name |-> NULL],
          [transport |-> "ConnectionError", product_name |-> NULL]}

\* library.GameLibrary.retrieve_ids before its loop
retrieve_ids_start(games) ==
    [op |-> "retrieve_ids", pc |-> "loop", games |-> games, i |-> 1,
     failed |-> <<>>, retrieved |-> <<>>]

\* One pass of its loop: the identity is appended to retrieved, a ValueError to
\* failed; any other exception leaves the loop and the command
retrieve_ids_pass(r, response) ==
    LET game == r.games[r.i]
        data == get_game_id(game.g, game.name, game.console, response)
    IN  IF data.raised = NULL
        THEN [r EXCEPT !.i = @ + 1, !.retrieved = Append(@, Val(data.value))]
        ELSE IF Val(data.raised).type = "ValueError"
        THEN [r EXCEPT !.i = @ + 1,
                       !.failed = Append(@, [game |-> game.g, name |-> game.name,
                                             message |-> Val(data.raised)])]
        ELSE [r EXCEPT !.pc = "terminated"]

RetrieveIdsStart ==
    /\ run.pc = "idle"
    /\ unidentified_games(DB) # <<>>
    /\ run' = retrieve_ids_start(unidentified_games(DB))
    /\ last' = NoOp
    /\ UNCHANGED <<physical_games, purchased_games, wanted_games, pricecharting_games,
                   physical_games_pricecharting_games, pricecharting_prices, sqlite_sequence,
                   now, report>>

RetrieveIdsPass ==
    /\ run.op = "retrieve_ids" /\ run.pc = "loop"
    /\ run.i <= Len(run.games)
    /\ \E response \in RunIdResponses : run' = retrieve_ids_pass(run, response)
    /\ UNCHANGED <<physical_games, purchased_games, wanted_games, pricecharting_games,
                   physical_games_pricecharting_games, pricecharting_prices, sqlite_sequence,
                   now, last, report>>

\* After the loop: one insert_game_ids for everything retrieved; a sqlite3.Error
\* (write_fails) is printed
RetrieveIdsSave ==
    /\ run.op = "retrieve_ids" /\ run.pc = "loop"
    /\ run.i > Len(run.games)
    /\ \E write_fails \in BOOLEAN :
        Commit(IF run.retrieved = <<>> \/ write_fails THEN DB
               ELSE insert_game_ids(DB, run.retrieved))
    /\ run' = [run EXCEPT !.pc = "done"]
    /\ UNCHANGED <<now, last, report>>

\* The process is terminated inside a loop: its local variables are lost (run
\* keeps them to tell what the process had done), the store keeps its commits
Crash ==
    /\ run.pc = "loop"
    /\ run' = [run EXCEPT !.pc = "killed"]
    /\ UNCHANGED <<physical_games, purchased_games, wanted_games, pricecharting_games,
                   physical_games_pricecharting_games, pricecharting_prices, sqlite_sequence,
                   now, last, report>>

\* Back at the prompt (or a new process) after a command ended
RunReturn ==
    /\ run.pc \in {"done", "killed", "terminated"}
    /\ run' = Idle
    /\ UNCHANGED <<physical_games, purchased_games, wanted_games, pricecharting_games,
                   physical_games_pricecharting_games, pricecharting_prices, sqlite_sequence,
                   now, last, report>>

\* -------------------------------------------------------------------- reports
\* get_collection_value_stats: total_purchase (SUM(CAST(price AS DECIMAL)) over
\* purchased_games, 0 for none)
RECURSIVE SumPurchases(_)
SumPurchases(rows) ==
    IF rows = {} THEN 0
    ELSE LET r == CHOOSE x \in rows : TRUE
         IN  r.price + SumPurchases(rows \ {r})
total_purchase(d) == SumPurchases(d.purchased_games)

\* lib/collection_utils.get_collection_value_stats: the three values above
get_collection_value_stats(d) ==
    [op |-> "get_collection_value_stats", total_purchase |-> total_purchase(d),
     total_market |-> total_market(d), top_valuable |-> top_valuable(d)]

\* The console_games CTE of get_console_distribution: one row per console of
\* physical_games JOIN purchased_games, COUNT(*) of the joined rows, and
\* ROUND(COUNT(*) * 100.0 / total, 1) kept in tenths of a percent
console_games(d) ==
    LET joined == {x \in d.physical_games \X d.purchased_games : x[1].id = x[2].physical_game}
        total == Cardinality(joined)
        count(console) == Cardinality({x \in joined : x[1].console = console})
    IN  {[console |-> console, game_count |-> count(console),
          percentage |-> (count(console) * 2000 + total) \div (2 * total)] :
            console \in {x[1].console : x \in joined}}

\* ORDER BY cg.game_count DESC, cg.console
RECURSIVE OrderByCount(_)
OrderByCount(rows) ==
    IF rows = {} THEN <<>>
    ELSE LET first == CHOOSE r \in rows : \A q \in rows :
                          \/ r.game_count > q.game_count
                          \/ (r.game_count = q.game_count /\ r.console <= q.console)
         IN  <<first>> \o OrderByCount(rows \ {first})

\* lib/collection_utils.get_console_distribution: console_games LEFT JOIN
\* most_expensive (rn = 1); without such a row the three columns are None
get_console_distribution(d) ==
    LET ordered == OrderByCount(console_games(d))
        me(k) == most_expensive(d, ordered[k].console)
    IN  [k \in 1..Len(ordered) |->
            [console |-> ordered[k].console, game_count |-> ordered[k].game_count,
             percentage |-> ordered[k].percentage,
             most_expensive_game |-> IF me(k) = NULL THEN NULL ELSE Some(Val(me(k)).name),
             most_expensive_condition |->
                 IF me(k) = NULL THEN NULL ELSE Some(Val(me(k)).condition),
             most_expensive_price |->
                 IF me(k) = NULL THEN NULL ELSE Val(me(k)).most_expensive_price]]

\* The store after construction
EmptyDB ==
    [physical_games |-> {}, purchased_games |-> {}, wanted_games |-> {},
     pricecharting_games |-> {}, physical_games_pricecharting_games |-> {},
     pricecharting_prices |-> {}, sqlite_sequence |-> [t \in Tables |-> 0]]

\* The rows of pricecharting_prices the two CTEs of the price changes read:
\* WHERE retrieve_time >= date('now', '-3 months'), three months taken as 90 days
CHANGES_WINDOW == 90
in_window(d, t) == {r \in d.pricecharting_prices : r.retrieve_time >= t - CHANGES_WINDOW}

\* The joins of the price changes query: purchase, game, link, catalog row, the
\* rn = 1 rows of latest_prices and of oldest_prices over the rows given, and
\* WHERE op.price != lp.price (false when either is NULL)
changes_rows(d, rows) ==
    LET part(r) == {q \in rows : q.pricecharting_id = r.pricecharting_id
                                  /\ q.condition = r.condition}
        lps == {r \in rows : r = first_by_time_desc(part(r))}
        ops == {r \in rows : r = first_by_time_asc(part(r))}
        base == {x \in d.purchased_games \X d.physical_games
                        \X d.physical_games_pricecharting_games \X d.pricecharting_games :
                    /\ x[1].physical_game = x[2].id
                    /\ x[2].id = x[3].physical_game
                    /\ x[3].pricecharting_game = x[4].id}
    IN  {[pg |-> y[1][1].id, link |-> y[1][3].id, name |-> y[1][2].name,
          console |-> y[1][2].console, condition |-> y[1][1].condition,
          old_price |-> Val(y[3].price), new_price |-> Val(y[2].price),
          price_change |-> Val(y[2].price) - Val(y[3].price)] :
            y \in {z \in base \X lps \X ops :
                     /\ z[1][4].pricecharting_id = Some(z[2].pricecharting_id)
                     /\ LOWER(z[1][1].condition) = LOWER(z[2].condition)
                     /\ z[1][4].pricecharting_id = Some(z[3].pricecharting_id)
                     /\ LOWER(z[1][1].condition) = LOWER(z[3].condition)
                     /\ z[2].price # NULL /\ z[3].price # NULL
                     /\ z[3].price # z[2].price}}

Abs(n) == IF n < 0 THEN 0 - n ELSE n

\* ORDER BY ABS(new - old) DESC, rows of equal change in scan order
RECURSIVE OrderByChange(_)
OrderByChange(rows) ==
    IF rows = {} THEN <<>>
    ELSE LET first == CHOOSE r \in rows : \A q \in rows :
                          \/ Abs(r.price_change) > Abs(q.price_change)
                          \/ (Abs(r.price_change) = Abs(q.price_change) /\ r.pg < q.pg)
                          \/ (Abs(r.price_change) = Abs(q.price_change) /\ r.pg = q.pg
                                 /\ r.link <= q.link)
         IN  <<first>> \o OrderByChange(rows \ {first})

\* Variant of biggest_changes whose CTEs read every row of pricecharting_prices.
\* C24 must fail when the report reads it.
biggest_changes_all_time(d, t) ==
    LET ordered == Limit(OrderByChange(changes_rows(d, d.pricecharting_prices)), 10)
    IN  [i \in 1..Len(ordered) |->
            [name |-> ordered[i].name, console |-> ordered[i].console,
             condition |-> ordered[i].condition, old_price |-> ordered[i].old_price,
             new_price |-> ordered[i].new_price, price_change |-> ordered[i].price_change]]

\* get_collection_value_stats: biggest_changes at time t (LIMIT 10), without
\* the percent_change column
CHANGES_LIMIT == 10
biggest_changes(d, t) ==
    LET ordered == Limit(OrderByChange(changes_rows(d, in_window(d, t))), CHANGES_LIMIT)
    IN  [i \in 1..Len(ordered) |->
            [name |-> ordered[i].name, console |-> ordered[i].console,
             condition |-> ordered[i].condition, old_price |-> ordered[i].old_price,
             new_price |-> ordered[i].new_price, price_change |-> ordered[i].price_change]]

\* Collections for the price changes, read on day ChangesDay. Each kind of game
\* is a purchase condition, a link or none, and the 'complete' prices the site
\* showed on given days (day 5 is before the window): no link; a rise; a fall;
\* no change; a newest snapshot without a price; an oldest one without a price;
\* a rise before the window only; a rise before and in the window; one snapshot.
ChangesDay == 100
ChangeKinds ==
    << [link |-> FALSE, condition |-> "complete", observed |-> <<>>],
       [link |-> TRUE, condition |-> "Complete", observed |-> << <<50, Some(10)>>, <<98, Some(20)>> >>],
       [link |-> TRUE, condition |-> "complete", observed |-> << <<50, Some(50)>>, <<98, Some(10)>> >>],
       [link |-> TRUE, condition |-> "complete", observed |-> << <<50, Some(10)>>, <<98, Some(10)>> >>],
       [link |-> TRUE, condition |-> "complete", observed |-> << <<50, Some(10)>>, <<98, NULL>> >>],
       [link |-> TRUE, condition |-> "complete", observed |-> << <<50, NULL>>, <<98, Some(20)>> >>],
       [link |-> TRUE, condition |-> "complete",
        observed |-> << <<5, Some(10)>>, <<50, Some(30)>>, <<98, Some(30)>> >>],
       [link |-> TRUE, condition |-> "complete",
        observed |-> << <<5, Some(10)>>, <<50, Some(20)>>, <<98, Some(50)>> >>],
       [link |-> TRUE, condition |-> "complete", observed |-> << <<98, Some(10)>> >>] >>

\* The store after insert_price_records stored the snapshots of catalog id cid
\* from the j-th on, each on its day
RECURSIVE observe_on(_, _, _, _)
observe_on(d, cid, observed, j) ==
    IF j > Len(observed) THEN d
    ELSE observe_on(insert_price_records(d, <<Some([game |-> cid, time |-> observed[j][1],
                        prices |-> [c \in Range(Conditions) |->
                                       IF c = "complete" THEN observed[j][2] ELSE NULL]])>>).db,
                    cid, observed, j + 1)

\* The catalog id of game k: a game of the same kind as the game before it is
\* another copy of that game's title and is linked to the same catalog id
RECURSIVE CopyOf(_, _)
CopyOf(kinds, k) == IF k > 1 /\ kinds[k] = kinds[k - 1] THEN CopyOf(kinds, k - 1) ELSE k

\* The store after add_game_to_database added the games of kinds that d does
\* not hold yet (game k has title k and, when linked, catalog id
\* CopyOf(kinds, k)) and the snapshots of each catalog id were stored
RECURSIVE collect_changes(_, _)
collect_changes(d, kinds) ==
    LET k == NextId(d, "physical_games")
    IN  IF k > Len(kinds) THEN d
        ELSE LET kind == ChangeKinds[kinds[k]]
                 cid == CopyOf(kinds, k)
                 game == [title |-> k, console |-> 1, condition |-> kind.condition,
                          price |-> 5, date |-> 1]
                 id_data == IF kind.link
                            THEN Some([pricecharting_id |-> cid, name |-> cid, console |-> 1])
                            ELSE NULL
                 added == add_game_to_database(d, game, id_data, "none").db
             IN  collect_changes(IF cid = k THEN observe_on(added, k, kind.observed, 1)
                                 ELSE added, kinds)

\* Up to MaxMixed games of any kinds, followed by no game or by ChangesGames - 1
\* or ChangesGames games that all rose or all fell
MaxMixed == 2
ChangesGames == 10
ChangeCollections ==
    {mixed \o [i \in 1..n |-> kind] :
        <<mixed, n, kind>> \in (UNION {[1..m -> 1..Len(ChangeKinds)] : m \in 0..MaxMixed})
                                \X {0, ChangesGames - 1, ChangesGames} \X {2, 3}}

InitChanges ==
    /\ \E kinds \in ChangeCollections :
        LET d == collect_changes(EmptyDB, kinds)
        IN  /\ physical_games = d.physical_games
            /\ purchased_games = d.purchased_games
            /\ wanted_games = d.wanted_games
            /\ pricecharting_games = d.pricecharting_games
            /\ physical_games_pricecharting_games = d.physical_games_pricecharting_games
            /\ pricecharting_prices = d.pricecharting_prices
            /\ sqlite_sequence = d.sqlite_sequence
    /\ now = ChangesDay
    /\ last = NoOp
    /\ run = Idle
    /\ report = NoReport

GetBiggestChanges ==
    /\ report' = [op |-> "biggest_changes", result |-> biggest_changes(DB, now)]
    /\ UNCHANGED <<physical_games, purchased_games, wanted_games, pricecharting_games,
                   physical_games_pricecharting_games, pricecharting_prices,
                   sqlite_sequence, now, last, run>>

\* Collections for the reports, prices in cents. Each kind of game is a purchase
\* (condition, price), a link or none, and the 'complete' prices the site showed
\* on the days of ObservedDays: never observed; Chrono Trigger and Earthbound of
\* test_value_statistics; a newest snapshot without a price; a newer price; a
\* purchase in a condition the site shows no price for.
ReportGames == 6
ObservedDays == <<1, 8>>
GameKinds ==
    << [link |-> FALSE, condition |-> "complete", price |-> 5, observed |-> <<>>],
       [link |-> TRUE, condition |-> "complete", price |-> 5, observed |-> <<>>],
       [link |-> TRUE, condition |-> "complete", price |-> 27500, observed |-> <<Some(34999)>>],
       [link |-> TRUE, condition |-> "Complete", price |-> 29999, observed |-> <<Some(39999)>>],
       [link |-> TRUE, condition |-> "complete", price |-> 5, observed |-> <<Some(20), NULL>>],
       [link |-> TRUE, condition |-> "complete", price |-> 5, observed |-> <<Some(10), Some(20)>>],
       [link |-> TRUE, condition |-> "loose", price |-> 5, observed |-> <<Some(10)>> ] >>

\* The store after insert_price_records stored the snapshots of catalog id cid
\* from the j-th on
RECURSIVE observe(_, _, _, _)
observe(d, cid, observed, j) ==
    IF j > Len(observed) THEN d
    ELSE observe(insert_price_records(d, <<Some([game |-> cid, time |-> ObservedDays[j],
                     prices |-> [c \in Range(Conditions) |->
                                    IF c = "complete" THEN observed[j] ELSE NULL]])>>).db,
                 cid, observed, j + 1)

\* The store after add_game_to_database added the games of kinds[k..] (game k
\* has title k, console 1 or 2 in turn and, when linked, catalog id k) and
\* their snapshots were stored
RECURSIVE collect(_, _, _)
collect(d, kinds, k) ==
    IF k > Len(kinds) THEN d
    ELSE LET kind == GameKinds[kinds[k]]
             game == [title |-> k, console |-> 1 + (k % 2), condition |-> kind.condition,
                      price |-> kind.price, date |-> 1]
             id_data == IF kind.link
                        THEN Some([pricecharting_id |-> k, name |-> k,
                                   console |-> 1 + (k % 2)])
                        ELSE NULL
             added == add_game_to_database(d, game, id_data, "none").db
         IN  collect(observe(added, k, kind.observed, 1), kinds, k + 1)

\* Lists of up to ReportGames kinds, in ascending or in descending order
Collections ==
    UNION {{kinds \in [1..n -> 1..Len(GameKinds)] :
              \/ \A j \in 1..(n - 1) : kinds[j] <= kinds[j + 1]
              \/ \A j \in 1..(n - 1) : kinds[j] >= kinds[j + 1]} : n \in 0..ReportGames}

InitReport ==
    /\ \E kinds \in Collections :
        LET d == collect(EmptyDB, kinds, 1)
        IN  /\ physical_games = d.physical_games
            /\ purchased_games = d.purchased_games
            /\ wanted_games = d.wanted_games
            /\ pricecharting_games = d.pricecharting_games
            /\ physical_games_pricecharting_games = d.physical_games_pricecharting_games
            /\ pricecharting_prices = d.pricecharting_prices
            /\ sqlite_sequence = d.sqlite_sequence
    /\ now = MaxTime
    /\ last = NoOp
    /\ run = Idle
    /\ report = NoReport

GetCollectionValueStats ==
    /\ report' = get_collection_value_stats(DB)
    /\ UNCHANGED <<physical_games, purchased_games, wanted_games, pricecharting_games,
                   physical_games_pricecharting_games, pricecharting_prices, sqlite_sequence,
                   now, last, run>>

GetConsoleDistribution ==
    /\ report' = [op |-> "get_console_distribution", result |-> get_console_distribution(DB)]
    /\ UNCHANGED <<physical_games, purchased_games, wanted_games, pricecharting_games,
                   physical_games_pricecharting_games, pricecharting_prices, sqlite_sequence,
                   now, last, run>>

\* GameData.date of the games of the feed, as day numbers
AcquisitionDates == {1, 2}
DatedGameInputs == [title : Names, console : Consoles, condition : PurchaseConditions,
                    price : PurchasePrices, date : AcquisitionDates]

\* add_game_to_database for a game bought on one of several days
AddOwnedGameOn ==
    /\ sqlite_sequence["physical_games"] < MaxGames
    /\ \E game \in DatedGameInputs : \E id_data \in IdData(game) :
        LET r == add_game_to_database(DB, game, id_data, "none")
        IN  /\ Commit(r.db)
            /\ last' = Result("add_game_to_database", r.game_id, CidOf(id_data), r.success,
                               "none", TRUE, StoredNote(DB, id_data))
    /\ UNCHANGED <<now, run, report>>

\* The rows of the query of get_recent_additions: physical_games LEFT JOIN
\* purchased_games LEFT JOIN wanted_games LEFT JOIN links LEFT JOIN
\* pricecharting_games, without a WHERE. A LEFT JOIN without a match gives one
\* row of NULLs. g is p.id, pg, w and link the rowids of the joined rows (0:
\* none); the result carries name, console, condition, date, current_prices and
\* is_wanted.
recent_rows(d) ==
    LET OrNull(S) == IF S = {} THEN {NULL} ELSE {Some(x) : x \in S}
        purchases(p) == OrNull({pg \in d.purchased_games : pg.physical_game = p.id})
        wishes(p) == OrNull({w \in d.wanted_games : w.physical_game = p.id})
        links(p) == OrNull({x \in d.physical_games_pricecharting_games \X d.pricecharting_games :
                               x[1].physical_game = p.id /\ x[1].pricecharting_game = x[2].id})
        pc_id(l) == IF l = NULL THEN NULL ELSE Val(l)[2].pricecharting_id
    IN  {[g |-> x[1].id,
          pg |-> IF x[2] = NULL THEN 0 ELSE Val(x[2]).id,
          w |-> IF x[3] = NULL THEN 0 ELSE Val(x[3]).id,
          link |-> IF x[4] = NULL THEN 0 ELSE Val(x[4])[1].id,
          name |-> x[1].name, console |-> x[1].console,
          condition |-> IF x[2] = NULL THEN NULL ELSE Some(Val(x[2]).condition),
          date |-> IF x[2] = NULL THEN NULL ELSE Some(Val(x[2]).acquisition_date),
          current_prices |-> [c \in Range(Conditions) |->
                                 float_if(latest_price_subquery(d, pc_id(x[4]), c))],
          is_wanted |-> x[3] # NULL] :
            x \in UNION {{p} \X purchases(p) \X wishes(p) \X links(p) : p \in d.physical_games}}

\* COALESCE(pg.acquisition_date, w.id) as SQLite compares it: a date is TEXT and
\* sorts above every INTEGER, a wishlist id is an INTEGER, NULL sorts below both
RecentKey(r) ==
    IF r.date # NULL THEN <<2, Val(r.date)>>
    ELSE IF r.w # 0 THEN <<1, r.w>>
    ELSE <<0, 0>>

\* ORDER BY COALESCE(pg.acquisition_date, w.id) DESC, rows of equal key in scan order
RECURSIVE OrderByRecent(_)
OrderByRecent(rows) ==
    IF rows = {} THEN <<>>
    ELSE LET Before(r, q) ==
                 \/ RecentKey(r)[1] > RecentKey(q)[1]
                 \/ RecentKey(r)[1] = RecentKey(q)[1] /\ RecentKey(r)[2] > RecentKey(q)[2]
                 \/ /\ RecentKey(r) = RecentKey(q)
                    /\ <<r.g, r.pg, r.w, r.link>> = <<q.g, q.pg, q.w, q.link>>
                 \/ RecentKey(r) = RecentKey(q) /\ r.g < q.g
                 \/ RecentKey(r) = RecentKey(q) /\ r.g = q.g /\ r.pg < q.pg
                 \/ RecentKey(r) = RecentKey(q) /\ r.g = q.g /\ r.pg = q.pg /\ r.w < q.w
                 \/ /\ RecentKey(r) = RecentKey(q) /\ r.g = q.g /\ r.pg = q.pg /\ r.w = q.w
                    /\ r.link < q.link
             first == CHOOSE r \in rows : \A q \in rows : Before(r, q)
         IN  <<first>> \o OrderByRecent(rows \ {first})

\* lib/collection_utils.get_recent_additions
get_recent_additions(d, limit) == Limit(OrderByRecent(recent_rows(d)), limit)

\* The values of limit
RecentLimits == 0..3

GetRecentAdditions ==
    /\ \E limit \in RecentLimits :
        report' = [op |-> "get_recent_additions", limit |-> limit,
                   result |-> get_recent_additions(DB, limit)]
    /\ last' = Result("get_recent_additions", 0, NULL, TRUE, "none", TRUE, {})
    /\ UNCHANGED <<physical_games, purchased_games, wanted_games, pricecharting_games,
                   physical_games_pricecharting_games, pricecharting_prices, sqlite_sequence,
                   now, run>>

\* The store operations, with failures of the add paths.
NextStore ==
    \/ AddOwnedGame
    \/ AddWantedGame
    \/ AddOwnedGameFails
    \/ AddWantedGameFails
    \/ GameLibraryAddGame
    \/ SampleWishlistGame
    \/ SearchLibraryDelete
    \/ SearchLibraryRemoveFromWishlist
    \/ ViewWishlistRemove
    \/ RemoveFromWishlist

SpecStore == Init /\ [][NextStore]_vars

Next ==
    \/ AddOwnedGame
    \/ AddWantedGame
    \/ RemoveFromWishlist
    \/ SearchLibraryDelete
    \/ RetrievePrices
    \/ Tick

Spec == Init /\ [][Next]_vars

\* The older program's operations, with both price refresh paths.
NextLegacy ==
    \/ AddOwnedGame
    \/ LibraryAddGame
    \/ RetrieveIds
    \/ UpdateWishlistItem
    \/ SearchLibraryDelete
    \/ RetrievePrices
    \/ LegacyRetrievePrices
    \/ Tick

SpecLegacy == Init /\ [][NextLegacy]_vars

\* Adds, identifier resolution and every edit path.
NextEdit ==
    \/ AddOwnedGame
    \/ AddWantedGame
    \/ LibraryAddGame
    \/ RetrieveIds
    \/ UpdateWishlistItemFields
    \/ SearchLibraryEdit
    \/ ViewWishlistEdit

SpecEdit == Init /\ [][NextEdit]_vars

\* Adds, price refresh and update_wishlist_item.
NextUpdate ==
    \/ AddOwnedGame
    \/ AddWantedGame
    \/ RetrievePrices
    \/ UpdateWishlistItemFields

SpecUpdate == Init /\ [][NextUpdate]_vars

\* The price fetcher on every response of the site.
NextFetch == GetGamePrices

SpecFetch == Init /\ [][NextFetch]_vars

\* The resolver on every response of the site, alone and inside add_game.
NextResolve ==
    \/ GetGameId
    \/ AddGamePrompt
    \/ AddGameChoice
    \/ AddGameStore

SpecResolve == Init /\ [][NextResolve]_vars

\* Price refresh runs of the program and of the script, item by item.
NextRun ==
    \/ (run.pc = "idle" /\ AddOwnedGame)
    \/ (run.pc = "idle" /\ Tick)
    \/ RetrievePricesStart
    \/ RetrievePricesPass
    \/ RetrievePricesTally
    \/ ScriptStart
    \/ ScriptPass
    \/ ScriptTally
    \/ RunReturn

SpecRun == Init /\ [][NextRun]_vars

\* Price refresh and identifier runs that can be terminated inside their loop.
NextCrash ==
    \/ (run.pc = "idle" /\ AddOwnedGame)
    \/ (run.pc = "idle" /\ LibraryAddGame)
    \/ RetrievePricesStart
    \/ RetrievePricesPass
    \/ RetrievePricesTally
    \/ RetrieveIdsStart
    \/ RetrieveIdsPass
    \/ RetrieveIdsSave
    \/ Crash
    \/ RunReturn

SpecCrash == Init /\ [][NextCrash]_vars

\* The value report on collections of every kind of game.
NextReport == GetCollectionValueStats

SpecReport == InitReport /\ [][NextReport]_vars

\* Adds on several days, wishlist adds and removals, and the feed.
NextRecent ==
    \/ AddOwnedGameOn
    \/ AddWantedGame
    \/ SampleWishlistGame
    \/ RemoveFromWishlist
    \/ GetRecentAdditions

SpecRecent == Init /\ [][NextRecent]_vars

\* The console distribution on the same collections.
NextDistribution == GetConsoleDistribution

SpecDistribution == InitReport /\ [][NextDistribution]_vars

\* insert_price_records on lists of snapshots and None.
InitInsert ==
    /\ \E n \in 1..MaxGames :
        LET d == collect(EmptyDB, [k \in 1..n |-> 2], 1)
        IN  /\ physical_games = d.physical_games
            /\ purchased_games = d.purchased_games
            /\ wanted_games = d.wanted_games
            /\ pricecharting_games = d.pricecharting_games
            /\ physical_games_pricecharting_games = d.physical_games_pricecharting_games
            /\ pricecharting_prices = d.pricecharting_prices
            /\ sqlite_sequence = d.sqlite_sequence
    /\ now = 1
    /\ last = NoOp
    /\ run = Idle
    /\ report = NoReport

NextInsert ==
    \/ InsertPriceRecords
    \/ Tick

SpecInsert == InitInsert /\ [][NextInsert]_vars

\* The selection of the price refresh, on stores with and without snapshots.
NextSelect ==
    \/ InsertPriceRecords
    \/ RetrieveGames
    \/ Tick

SpecSelect == InitInsert /\ [][NextSelect]_vars

\* The price changes of the value report.
NextChanges == GetBiggestChanges

SpecChanges == InitChanges /\ [][NextChanges]_vars

\* The interactive add flow.
NextAddFlow ==
    \/ AddFlowStart
    \/ AddFlowCollect
    \/ AddFlowResolve
    \/ AddFlowChoice
    \/ AddFlowStore
    \/ AddFlowRestart

SpecAddFlow == Init /\ [][NextAddFlow]_vars

\* Both selections, on stores in which games share catalog ids.
NextEligible ==
    \/ AddOwnedGame
    \/ RetrievePrices
    \/ RetrieveGames
    \/ LegacyRetrieveGames
    \/ Tick

SpecEligible == Init /\ [][NextEligible]_vars

\* The count and the selections, on stores written by both refresh paths.
NextAgree ==
    \/ AddOwnedGame
    \/ RetrievePrices
    \/ LegacyRetrievePrices
    \/ CountEligible
    \/ Tick

SpecAgree == Init /\ [][NextAgree]_vars

\* ------------------------------------------------------------------ claims
\* The unbounded selection at the current time, as a set of catalog ids
Selected == {Val(x) : x \in Range(retrieve_games(DB, now, NULL)) \ {NULL}}

\* cid is linked to a physical game
LinkedGames(cid) ==
    {g \in physical_games :
        \E j \in physical_games_pricecharting_games : \E z \in pricecharting_games :
            j.physical_game = g.id /\ j.pricecharting_game = z.id
            /\ z.pricecharting_id = Some(cid)}

Observations(cid) == {r \in pricecharting_prices : r.pricecharting_id = cid}

\* C2: the unbounded selection returns exactly the catalog ids that are linked to
\* a physical game having a purchase or a wishlist record and that have no
\* observation at all or a newest observation older than 7 days.
C2_EligibleSet ==
    \A cid \in CatalogIds :
        cid \in Selected <=>
            /\ \E g \in LinkedGames(cid) : owned(DB, g.id) \/ wanted(DB, g.id)
            /\ \A r \in Observations(cid) : r.retrieve_time + STALE_DAYS < now

\* C3: max_prices = 0 selects nothing, max_prices absent selects the full list,
\* and k > 0 selects the first min(k, length) entries of the full list.
C3_MaxPrices ==
    LET full == retrieve_games(DB, now, NULL)
        Min(a, b) == IF a < b THEN a ELSE b
    IN  /\ retrieve_games(DB, now, Some(0)) = <<>>
        /\ \A k \in 1..(MaxGames + 1) :
              retrieve_games(DB, now, Some(k)) = SubSeq(full, 1, Min(k, Len(full)))

\* C4: a catalog id with an observation at time T (a null-price sentinel
\* included) is not selected at any time up to T + 7 days, and is selected
\* again after T + 7 days while it is linked and has no newer observation.
C4_Staleness ==
    \A cid \in CatalogIds :
        /\ \A r \in Observations(cid) :
              now <= r.retrieve_time + STALE_DAYS => cid \notin Selected
        /\ (/\ Observations(cid) # {}
            /\ \A r \in Observations(cid) : now > r.retrieve_time + STALE_DAYS
            /\ LinkedGames(cid) # {})
           => cid \in Selected

\* C4's case: only null-price rows were recorded for a linked catalog id, more
\* than 7 days have passed and the id is selected again.
C4_Witness ==
    \E cid \in CatalogIds :
        /\ Observations(cid) # {}
        /\ \A r \in Observations(cid) : r.price = NULL /\ now > r.retrieve_time + STALE_DAYS
        /\ cid \in Selected

\* C10: every step keeps every row of pricecharting_prices as it is.
C10_AppendOnly ==
    [][\A r \in pricecharting_prices : r \in pricecharting_prices']_vars

\* C10's case: the delete path has removed the catalog row of an id that has
\* observations, and the observations are still stored.
C10_Witness ==
    /\ last.op = "search_library_delete"
    /\ \E r \in pricecharting_prices :
          ~ \E z \in pricecharting_games : z.pricecharting_id = Some(r.pricecharting_id)

\* The keys (catalog id, condition) that have observations at two times T1 < T2
C6_Keys ==
    {k \in CatalogIds \X Range(Conditions) :
        \E r1, r2 \in price_rows(DB, Some(k[1]), k[2]) : r1.retrieve_time < r2.retrieve_time}

\* The price of the newest row of a key (NULL: the newest row has no price, or
\* the key has no row)
C6_T2Price(cid, c) ==
    LET rows == price_rows(DB, cid, c)
    IN  IF rows = {} THEN NULL
        ELSE (CHOOSE r \in rows : \A q \in rows : q.retrieve_time <= r.retrieve_time).price

\* Purchases with the catalog id they are linked to
C6_Purchases ==
    {x \in purchased_games \X physical_games_pricecharting_games \X pricecharting_games :
        x[1].physical_game = x[2].physical_game /\ x[2].pricecharting_game = x[3].id}

RECURSIVE C6_Sum(_)
C6_Sum(xs) ==
    IF xs = {} THEN 0
    ELSE LET x == CHOOSE y \in xs : TRUE
             price == C6_T2Price(x[3].pricecharting_id, LOWER(x[1].condition))
         IN  (IF price = NULL THEN 0 ELSE Val(price)) + C6_Sum(xs \ {x})

C5_Sentinel ==
    (/\ last.op \in {"retrieve_prices", "legacy_retrieve_prices"}
     /\ last.note = {"all_null"})
    => /\ \E r \in pricecharting_prices :
              Some(r.pricecharting_id) = last.cid /\ r.retrieve_time = now
       /\ last_update(DB, last.cid) = Some(now)

AddOps == {"add_game_to_database", "add_game_to_wishlist", "add_game"}

\* C1: no two catalog rows hold the same non-null catalog id, and an add that
\* carries a catalog id already stored succeeds, leaves pricecharting_games as
\* it was and links the new physical game to the stored row.
C1_Dedup ==
    /\ [](\A y, z \in pricecharting_games :
              (y.pricecharting_id # NULL /\ y.pricecharting_id = z.pricecharting_id) => y = z)
    /\ [][(last'.op \in AddOps /\ last'.failAt = "none" /\ "stored" \in last'.note)
          => /\ last'.ok
             /\ pricecharting_games' = pricecharting_games
             /\ \E j \in physical_games_pricecharting_games' \ physical_games_pricecharting_games :
                  /\ j.physical_game = last'.game
                  /\ \E z \in pricecharting_games :
                        z.id = j.pricecharting_game /\ z.pricecharting_id = last'.cid]_vars

\* C1's case: a wishlist add carried a catalog id that was stored, and its game
\* and another game are linked to the one catalog row of that id.
C1_Witness ==
    /\ last.op = "add_game_to_wishlist" /\ last.ok /\ "stored" \in last.note
    /\ \E j, k \in physical_games_pricecharting_games :
          /\ j.physical_game = last.game /\ k.physical_game # last.game
          /\ j.pricecharting_game = k.pricecharting_game
          /\ \E z \in pricecharting_games :
                z.id = j.pricecharting_game /\ z.pricecharting_id = last.cid

\* C7: when the link insert of add_game_to_database / GameLibrary.add_game
\* fails, the caller gets a failure result and, once its connection has
\* committed or closed, no physical game, purchase or catalog row written by
\* the call is stored.
C7_Atomic ==
    (last.op \in {"add_game_to_database", "add_game"} /\ last.failAt = "link")
    => /\ ~last.ok
       /\ ~ \E g \in physical_games : g.id = last.game
       /\ ~ \E pg \in purchased_games : pg.physical_game = last.game
       /\ "stored" \notin last.note =>
              ~ \E z \in pricecharting_games : z.pricecharting_id = last.cid

\* The catalog rows a game is linked to, and whether another game links to one
CatalogOf(game_id) ==
    {z \in pricecharting_games :
        \E j \in physical_games_pricecharting_games :
            j.physical_game = game_id /\ j.pricecharting_game = z.id}
SharedCatalog(game_id, z) ==
    \E j \in physical_games_pricecharting_games :
        j.physical_game # game_id /\ j.pricecharting_game = z.id

\* C8: the delete path of search_library on an owned game. Without a wishlist
\* record: the purchase, the links and the physical game are removed, and each
\* catalog row of the game is deleted exactly when no other game links to it.
\* With a wishlist record: only the purchase is removed; the wishlist record,
\* the physical game and the links stay.
C8_DeleteCleanup ==
    [][(last'.op = "search_library_delete" /\ owned(DB, last'.game))
       => IF ~wanted(DB, last'.game)
          THEN /\ ~owned(DB', last'.game)
               /\ ~ \E j \in physical_games_pricecharting_games' : j.physical_game = last'.game
               /\ ~ \E g \in physical_games' : g.id = last'.game
               /\ \A z \in CatalogOf(last'.game) :
                      z \in pricecharting_games' <=> SharedCatalog(last'.game, z)
          ELSE /\ ~owned(DB', last'.game)
               /\ wanted_games' = wanted_games
               /\ physical_games' = physical_games
               /\ physical_games_pricecharting_games' = physical_games_pricecharting_games]_vars

RemovalOps == {"search_library_delete", "search_library_remove", "view_wishlist_remove",
               "remove_from_wishlist"}

\* C9: a removal that deletes a game's last referencing record (purchase or
\* wishlist) leaves no link of the game and deletes each of its catalog rows
\* that no other game links to; a game that still has a purchase after its
\* wishlist record is removed stays.
C9_RemovalCleanup ==
    [][last'.op \in RemovalOps
       => /\ ((owned(DB, last'.game) \/ wanted(DB, last'.game))
              /\ ~owned(DB', last'.game) /\ ~wanted(DB', last'.game))
             => /\ ~ \E j \in physical_games_pricecharting_games' : j.physical_game = last'.game
                /\ \A z \in CatalogOf(last'.game) :
                      ~SharedCatalog(last'.game, z) => z \notin pricecharting_games'
          /\ (wanted(DB, last'.game) /\ ~wanted(DB', last'.game) /\ owned(DB', last'.game))
             => \E g \in physical_games' : g.id = last'.game]_vars

EditOps == {"update_wishlist_item", "search_library_edit", "view_wishlist_edit"}

\* C11: no two catalog rows hold the same non-null catalog id; no step changes
\* the catalog id of a row that had one; an edit leaves the id and catalog id of
\* every catalog row as they were; identifier resolution sets a catalog id only
\* on rows that had none.
C11_CatalogIdImmutable ==
    /\ [](\A y, z \in pricecharting_games :
              (y.pricecharting_id # NULL /\ y.pricecharting_id = z.pricecharting_id) => y.id = z.id)
    /\ [][\A z \in pricecharting_games : \A y \in pricecharting_games' :
              (y.id = z.id /\ z.pricecharting_id # NULL) => y.pricecharting_id = z.pricecharting_id]_vars
    /\ [][last'.op \in EditOps =>
              {<<z.id, z.pricecharting_id>> : z \in pricecharting_games'}
                  = {<<z.id, z.pricecharting_id>> : z \in pricecharting_games}]_vars
    /\ [][last'.op = "retrieve_ids" =>
              \A y \in pricecharting_games' :
                  \/ y \in pricecharting_games
                  \/ \E z \in pricecharting_games : z.id = y.id /\ z.pricecharting_id = NULL]_vars

\* C11's case: identifier resolution has just run while a catalog row with a
\* catalog id was stored, and two rows with different catalog ids are stored.
C11_Witness ==
    /\ last.op = "retrieve_ids"
    /\ \E y, z \in pricecharting_games :
          /\ y.pricecharting_id # NULL /\ z.pricecharting_id # NULL
          /\ y.pricecharting_id # z.pricecharting_id

\* The value a field takes under an updates dict: the dict's value when the key
\* is present, the old value otherwise
C20_Field(updates, key, old) == IF updates[key] # NULL THEN Val(updates[key]) ELSE old

\* C20: update_wishlist_item sets the fields named in its dict on the physical
\* game and on every catalog row linked to it and keeps the fields not named;
\* every other physical game and catalog row, every purchase, wishlist record,
\* link, observation and catalog id stays as it was; an empty dict changes
\* nothing.
C20_UpdateFields ==
    [][last'.op = "update_wishlist_item" =>
        LET updates == last'.note
            game_id == last'.game
            linked(z) == \E j \in physical_games_pricecharting_games :
                            j.physical_game = game_id /\ j.pricecharting_game = z.id
        IN  /\ physical_games' =
                  {IF g.id = game_id
                   THEN [id |-> g.id, name |-> C20_Field(updates, "name", g.name),
                         console |-> C20_Field(updates, "console", g.console)]
                   ELSE g : g \in physical_games}
            /\ pricecharting_games' =
                  {IF linked(z)
                   THEN [id |-> z.id, pricecharting_id |-> z.pricecharting_id,
                         name |-> C20_Field(updates, "name", z.name),
                         console |-> C20_Field(updates, "console", z.console)]
                   ELSE z : z \in pricecharting_games}
            /\ UNCHANGED <<purchased_games, wanted_games, physical_games_pricecharting_games,
                           pricecharting_prices, sqlite_sequence>>
            /\ Empty(updates) => UNCHANGED <<physical_games, pricecharting_games>>]_vars

\* C20's case: an update that named only the console has just run on a game
\* whose catalog row is shared with another game and has observations; the game
\* and the catalog row have the new console and the other game has not.
C20_Witness ==
    /\ last.op = "update_wishlist_item"
    /\ last.note.name = NULL /\ last.note.console = Some(2)
    /\ \E g, h \in physical_games : \E z \in pricecharting_games :
          /\ g.id = last.game /\ h.id # g.id
          /\ g.console = 2 /\ z.console = 2 /\ h.console = 1
          /\ z \in CatalogOf(g.id) /\ z \in CatalogOf(h.id)
          /\ \E r \in pricecharting_prices : Some(r.pricecharting_id) = z.pricecharting_id

C16_Price(text) ==
    IF text \in {"10", "$10"} THEN Some(10) ELSE IF text \in {"20", "$20"} THEN Some(20) ELSE NULL
C16_Malformed(page) ==
    \E c \in {"complete", "new", "loose"} :
        page[c] # NULL /\ Val(page[c]) \notin {"-", "10", "$10", "20", "$20"}

C15_ResolveOutcomes ==
    /\ report.op = "get_game_id" =>
          /\ report.requests = 1
          /\ \/ /\ report.result.raised = NULL
                /\ report.result.value # None
                /\ Val(report.result.value).pricecharting_id \in CatalogIds
             \/ /\ report.result.raised # NULL
                /\ report.result.value = None
                /\ Val(report.result.raised).type = "ValueError"
                /\ Val(report.result.raised).url = Some(Url(report.game_name, report.system_name))
    /\ run.pc # "terminated"
\* Rows of catalog id cid observed at time t
ObservedAt(cid, t) ==
    {r \in pricecharting_prices : Some(r.pricecharting_id) = cid /\ r.retrieve_time = t}

\* C12: when a run of GameLibrary.retrieve_prices ends, every selected id either
\* had observations appended and is counted as succeeded, or is in the failure
\* list with its id and a message; and succeeded + failures = selected items.
C12_NoSilentFailure ==
    (run.op = "retrieve_prices" /\ run.pc = "done") =>
        /\ run.processed + Len(run.all_failed) = Len(run.games)
        /\ \A k \in 1..Len(run.games) :
            \/ /\ run.games[k] \in Range(run.counted)
               /\ ObservedAt(run.games[k], now) # {}
            \/ \E f \in Range(run.all_failed) : f.game = run.games[k] /\ f.message # ""

\* The ids of a list, each once
NoDuplicates(seq) == \A j, k \in 1..Len(seq) : seq[j] = seq[k] => j = k

\* C13: a refresh run that reached its tally has attempted every selected
\* catalog id exactly once, in selection order.
C13_EachOnceInOrder ==
    (run.op \in {"retrieve_prices", "retrieve_prices.py"} /\ run.pc = "done") =>
        /\ run.requests = run.games
        /\ NoDuplicates(run.requests)

\* C14: when the process is terminated inside a batch loop, the results of the
\* items it had processed successfully are in the store: the observations of
\* every id whose snapshot a price refresh had saved, the identifier of every
\* catalog row an identifier run had resolved.
C14_PerItemPersistence ==
    (run.pc = "killed") =>
        /\ run.op = "retrieve_prices" =>
              \A cid \in Range(run.saved) : ObservedAt(cid, now) # {}
        /\ run.op = "retrieve_ids" =>
              \A k \in 1..Len(run.retrieved) :
                  \E z \in pricecharting_games :
                      /\ z.id = run.retrieved[k].id
                      /\ z.pricecharting_id = Some(run.retrieved[k].pricecharting_id)

\* The owned games, and the purchase record of one
OwnedGames == {g \in physical_games : \E pg \in purchased_games : pg.physical_game = g.id}
PurchaseOf(g) == CHOOSE pg \in purchased_games : pg.physical_game = g.id

\* The observations of the catalog id an owned game is linked to, at the
\* condition of its purchase record compared without case
MatchingObservations(g) ==
    {r \in pricecharting_prices :
        /\ \E j \in physical_games_pricecharting_games : \E z \in pricecharting_games :
              /\ j.physical_game = g.id /\ j.pricecharting_game = z.id
              /\ z.pricecharting_id = Some(r.pricecharting_id)
        /\ LOWER(r.condition) = LOWER(PurchaseOf(g).condition)}

\* The price of the latest of them: NULL when there is none or it has no price
CurrentPrice(g) ==
    IF MatchingObservations(g) = {} THEN NULL
    ELSE (CHOOSE r \in MatchingObservations(g) :
              \A q \in MatchingObservations(g) : q.retrieve_time <= r.retrieve_time).price

RECURSIVE C17_Sum(_)
C17_Sum(games) ==
    IF games = {} THEN 0
    ELSE LET g == CHOOSE x \in games : TRUE
         IN  (IF CurrentPrice(g) = NULL THEN 0 ELSE Val(CurrentPrice(g)))
             + C17_Sum(games \ {g})

\* The collection of the Chrono Trigger scenario: one purchase at 275.00 and one
\* 'complete' observation, at 349.99, of the catalog id it is linked to
C17_ChronoTrigger ==
    \E g \in physical_games : \E r \in pricecharting_prices :
        /\ OwnedGames = {g}
        /\ purchased_games = {PurchaseOf(g)}
        /\ PurchaseOf(g).price = 27500
        /\ MatchingObservations(g) = {r}
        /\ r.condition = "complete" /\ r.price = Some(34999)

\* C17: the total market value get_collection_value_stats returns is the sum,
\* over the owned games each counted once, of the price of the latest
\* observation of the linked catalog id at the purchase condition (compared
\* without case), 0 for a game without link, without such an observation or
\* with a latest price of NULL; in the Chrono Trigger scenario the totals are
\* 275.00 and 349.99.
C17_MarketValue ==
    (report.op = "get_collection_value_stats") =>
        /\ report.total_market = C17_Sum(OwnedGames)
        /\ C17_ChronoTrigger =>
              (report.total_purchase = 27500 /\ report.total_market = 34999)

\* A report on a collection with two priced games, one of them bought as
\* 'Complete', a game without link and a game whose latest price is NULL after
\* an older price
C17_Witness ==
    /\ report.op = "get_collection_value_stats"
    /\ \E g1, g2, g3, g4 \in OwnedGames :
        /\ g1 # g2
        /\ CurrentPrice(g1) # NULL /\ PurchaseOf(g1).condition = "Complete"
        /\ CurrentPrice(g2) # NULL
        /\ ~ \E j \in physical_games_pricecharting_games : j.physical_game = g3.id
        /\ CurrentPrice(g4) = NULL
        /\ \E r \in MatchingObservations(g4) : r.price # NULL
    /\ report.total_market > 0

\* The Chrono Trigger scenario was reported
C17_ScenarioWitness ==
    report.op = "get_collection_value_stats" /\ C17_ChronoTrigger

\* The owned game of an entry of top_valuable (pg is its purchase record)
C18_GameOf(entry) == {g \in OwnedGames : PurchaseOf(g).id = entry.pg}

\* C18: top_valuable has at most 5 entries; each is an owned, linked game whose
\* latest observation at its purchase condition has a non-null price, listed
\* with that price; the prices never increase along the list; and no owned
\* game left out has a price strictly higher than a listed one.
C18_TopValuable ==
    (report.op = "get_collection_value_stats") =>
        LET top == report.top_valuable
        IN  /\ Len(top) <= 5
            /\ \A k \in 1..Len(top) :
                  \E g \in C18_GameOf(top[k]) :
                      /\ \E j \in physical_games_pricecharting_games : j.physical_game = g.id
                      /\ CurrentPrice(g) # NULL
                      /\ top[k].current_price = CurrentPrice(g)
            /\ \A k \in 1..(Len(top) - 1) :
                  Val(top[k].current_price) >= Val(top[k + 1].current_price)
            /\ \A g \in OwnedGames :
                  (CurrentPrice(g) # NULL /\ \A k \in 1..Len(top) : g \notin C18_GameOf(top[k]))
                  => \A k \in 1..Len(top) :
                         Val(CurrentPrice(g)) <= Val(top[k].current_price)

\* A report whose list is full, holds two different prices and leaves a priced
\* owned game out
C18_Witness ==
    /\ report.op = "get_collection_value_stats"
    /\ Len(report.top_valuable) = 5
    /\ report.top_valuable[1].current_price # report.top_valuable[5].current_price
    /\ \E g \in OwnedGames :
          /\ CurrentPrice(g) # NULL
          /\ \A k \in 1..5 : g \notin C18_GameOf(report.top_valuable[k])

\* The games that are owned or wanted
OwnedOrWanted == {g \in physical_games : owned(DB, g.id) \/ wanted(DB, g.id)}

\* C19: get_recent_additions(limit) returns min(limit, N) entries, N the number
\* of owned-or-wanted games; every entry is a game with a purchase record or a
\* wishlist record; owned games are in descending order of acquisition date
\* and wanted games in descending order of wishlist row id.
C19_RecentActivity ==
    (last.op = "get_recent_additions") =>
        LET feed == report.result
            N == Cardinality(OwnedOrWanted)
        IN  /\ Len(feed) = (IF report.limit < N THEN report.limit ELSE N)
            /\ \A k \in 1..Len(feed) : owned(DB, feed[k].g) \/ wanted(DB, feed[k].g)
            /\ \A j, k \in 1..Len(feed) :
                  (j < k /\ feed[j].date # NULL /\ feed[k].date # NULL)
                  => Val(feed[j].date) >= Val(feed[k].date)
            /\ \A j, k \in 1..Len(feed) :
                  (j < k /\ feed[j].date = NULL /\ feed[k].date = NULL
                   /\ feed[j].w # 0 /\ feed[k].w # 0)
                  => feed[j].w >= feed[k].w

\* The owned games of a console
C21_OwnedOn(console) == {g \in OwnedGames : g.console = console}

\* C21: get_console_distribution returns one row per console with an owned
\* game; its count is the number of purchase records of the console and the
\* counts sum to the number of owned games; the rows are ordered by count
\* descending, then console; the most expensive entry of a row is an owned game
\* of the console whose latest price at its purchase condition is the largest
\* of the console, and is absent when no game of the console has a price.
C21_PlatformDistribution ==
    (report.op = "get_console_distribution") =>
        LET rows == report.result
            Entry(k) == <<rows[k].most_expensive_game, rows[k].most_expensive_condition,
                          rows[k].most_expensive_price>>
            Priced(k) == {g \in C21_OwnedOn(rows[k].console) : CurrentPrice(g) # NULL}
        IN  /\ {rows[k].console : k \in 1..Len(rows)} = {g.console : g \in OwnedGames}
            /\ \A j, k \in 1..Len(rows) : rows[j].console = rows[k].console => j = k
            /\ \A k \in 1..Len(rows) :
                  rows[k].game_count =
                      Cardinality({pg \in purchased_games :
                          \E g \in physical_games :
                              g.id = pg.physical_game /\ g.console = rows[k].console})
            /\ \A k \in 1..Len(rows) :
                  rows[k].game_count = Cardinality(C21_OwnedOn(rows[k].console))
            /\ \A k \in 1..(Len(rows) - 1) :
                  \/ rows[k].game_count > rows[k + 1].game_count
                  \/ /\ rows[k].game_count = rows[k + 1].game_count
                     /\ rows[k].console < rows[k + 1].console
            /\ \A k \in 1..Len(rows) :
                  IF Priced(k) = {} THEN Entry(k) = <<NULL, NULL, NULL>>
                  ELSE \E g \in Priced(k) :
                          /\ rows[k].most_expensive_game = Some(g.name)
                          /\ rows[k].most_expensive_condition = Some(PurchaseOf(g).condition)
                          /\ rows[k].most_expensive_price = CurrentPrice(g)
                          /\ \A h \in Priced(k) : Val(CurrentPrice(h)) <= Val(CurrentPrice(g))

\* How many rows (cid, c, p) the snapshots of a list call for: one per snapshot
\* of cid whose price at c is p, and one more ('new', NULL) per snapshot of cid
\* without any price
C22_Expected(games, cid, c, p) ==
    LET snapshots == {i \in 1..Len(games) : games[i] # None /\ Val(games[i]).game = cid}
        NoPrice(i) == \A x \in Range(Conditions) : Val(games[i]).prices[x] = NULL
    IN  Cardinality({i \in snapshots : Val(games[i]).prices[c] = p})
        + (IF c = "new" /\ p = NULL
           THEN Cardinality({i \in snapshots : NoPrice(i)}) ELSE 0)

\* C22: insert_price_records appends, for every snapshot of its input that is
\* not None, one row per condition with that condition's price or NULL, and
\* one more NULL row of condition 'new' when the snapshot has no price at all;
\* a None entry appends nothing and the snapshots around it are still recorded.
\* No stored row changes.
C22_InsertRows ==
    [][(last'.op = "insert_price_records") =>
          LET games == last'.note
              appended == pricecharting_prices' \ pricecharting_prices
          IN  /\ pricecharting_prices \subseteq pricecharting_prices'
              /\ \A r \in appended :
                    r.retrieve_time = now /\ r.condition \in Range(Conditions)
              /\ \A cid \in CatalogIds : \A c \in Range(Conditions) :
                 \A p \in Nullable(Prices) :
                    Cardinality({r \in appended : /\ r.pricecharting_id = cid
                                                  /\ r.condition = c /\ r.price = p})
                    = C22_Expected(games, cid, c, p)]_vars

\* A call on a None entry followed by a snapshot without any price, whose four
\* rows are stored
C22_Witness ==
    /\ last.op = "insert_price_records"
    /\ Len(last.note) = 2
    /\ last.note[1] = None
    /\ last.note[2] # None
    /\ \A c \in Range(Conditions) : Val(last.note[2]).prices[c] = NULL
    /\ Cardinality({r \in pricecharting_prices :
                       /\ r.pricecharting_id = Val(last.note[2]).game
                       /\ r.retrieve_time = now /\ r.price = NULL}) >= 4

\* C23: when the store fails, retrieve_games raises nothing and returns the
\* empty list, and no table of the store has changed.
C23_ErrorGivesEmpty ==
    [][(report'.op = "retrieve_games" /\ report'.failure \in StoreErrors /\ report' # report) =>
          /\ report'.raised = "none"
          /\ report'.result = <<>>
          /\ UNCHANGED <<physical_games, purchased_games, wanted_games,
                         pricecharting_games, physical_games_pricecharting_games,
                         pricecharting_prices, sqlite_sequence>>]_vars

\* A failed call on a store in which a call without the failure selects an id
C23_Witness ==
    /\ report.op = "retrieve_games"
    /\ report.failure = "OperationalError"
    /\ report.result = <<>>
    /\ retrieve_games(DB, now, NULL) # <<>>

\* The observations of an owned game at its purchase condition in the three
\* months before now, and the first and the last of them
C24_Observations(g) ==
    {r \in pricecharting_prices :
        /\ r.retrieve_time >= now - CHANGES_WINDOW
        /\ LOWER(r.condition) = LOWER(PurchaseOf(g).condition)
        /\ \E j \in physical_games_pricecharting_games : \E z \in pricecharting_games :
              /\ j.physical_game = g.id /\ j.pricecharting_game = z.id
              /\ z.pricecharting_id = Some(r.pricecharting_id)}
C24_Earliest(g) ==
    (CHOOSE r \in C24_Observations(g) :
        \A q \in C24_Observations(g) : r.retrieve_time <= q.retrieve_time).price
C24_Latest(g) ==
    (CHOOSE r \in C24_Observations(g) :
        \A q \in C24_Observations(g) : r.retrieve_time >= q.retrieve_time).price
C24_Moved ==
    {g \in OwnedGames : /\ C24_Observations(g) # {}
                        /\ C24_Earliest(g) # NULL /\ C24_Latest(g) # NULL
                        /\ C24_Earliest(g) # C24_Latest(g)}

\* C24: the price changes of the report are at most 10 entries; each is an owned
\* linked game whose earliest and latest observations of the last three months
\* at the purchase condition both have a price and the prices differ, with
\* change = latest - earliest; the entries are in non-increasing order of the
\* absolute change; and a game that moved is left out only when ten entries
\* with an absolute change at least as large are listed.
C24_BiggestMovers ==
    (report.op = "biggest_changes") =>
        LET res == report.result
        IN  /\ Len(res) <= 10
            /\ \A i \in 1..Len(res) : \E g \in C24_Moved :
                  /\ res[i].name = g.name
                  /\ res[i].condition = PurchaseOf(g).condition
                  /\ res[i].old_price = Val(C24_Earliest(g))
                  /\ res[i].new_price = Val(C24_Latest(g))
                  /\ res[i].price_change = Val(C24_Latest(g)) - Val(C24_Earliest(g))
            /\ \A i \in 1..Len(res) : \A j \in 1..Len(res) :
                  i < j => Abs(res[i].price_change) >= Abs(res[j].price_change)
            /\ \A i \in 1..Len(res) : \A j \in 1..Len(res) :
                  i # j => res[i].name # res[j].name
            /\ \A g \in C24_Moved :
                  \/ \E i \in 1..Len(res) : res[i].name = g.name
                  \/ /\ Len(res) = 10
                     /\ Abs(Val(C24_Latest(g)) - Val(C24_Earliest(g)))
                            <= Abs(res[10].price_change)

\* Eleven games moved, one of them by more inside the window than the others and
\* by less than since its first observation; ten are listed, that one first
C24_Witness ==
    /\ report.op = "biggest_changes"
    /\ Cardinality(C24_Moved) = 11
    /\ Len(report.result) = 10
    /\ report.result[1].price_change = 30
    /\ report.result[10].price_change = 10

\* C25: the add flow goes from the prompts to the lookup and from the lookup
\* to the inserts or to the question; at the question 'e' goes back to the
\* prompts, where an empty answer takes the previous one, 'c' goes to the
\* inserts without an identity, anything else leaves the flow; no table changes
\* except by the inserts; and the inserts after 'c' add the game and its
\* purchase or wishlist record but no catalog row and no link.
C25_AddFlow ==
    [][/\ (run.pc = "collecting") => run'.pc \in {"resolving", "idle"}
       /\ (run.pc = "resolving") => run'.pc \in {"confirmed", "failed"}
       /\ (run.pc = "failed") =>
             /\ (last'.note[2] = "e") =>
                   (run'.pc = "collecting" /\ run'.previous_game = run.game)
             /\ (last'.note[2] = "c") => (run'.pc = "confirmed" /\ run'.id_data = NULL)
             /\ (last'.note[2] \notin {"e", "c"}) => run'.pc \in {"idle", "goodbye"}
       /\ (run.pc = "collecting" /\ run'.pc = "resolving" /\ last'.note[2] = Blank) =>
             Val(run'.game).title = Val(run.previous_game).title
       /\ (run.pc # "confirmed") =>
             UNCHANGED <<physical_games, purchased_games, wanted_games,
                         pricecharting_games, physical_games_pricecharting_games,
                         pricecharting_prices>>
       /\ (run.pc = "confirmed" /\ run.id_data = NULL /\ last'.ok) =>
             /\ \E g \in physical_games' \ physical_games :
                   /\ physical_games' = physical_games \cup {g}
                   /\ g.name = Val(run.game).title
                   /\ IF run.op = "add_game"
                      THEN /\ \E pg \in purchased_games' \ purchased_games :
                                 /\ pg.physical_game = g.id
                                 /\ purchased_games' = purchased_games \cup {pg}
                           /\ wanted_games' = wanted_games
                      ELSE /\ \E w \in wanted_games' \ wanted_games :
                                 /\ w.physical_game = g.id
                                 /\ wanted_games' = wanted_games \cup {w}
                           /\ purchased_games' = purchased_games
             /\ pricecharting_games' = pricecharting_games
             /\ physical_games_pricecharting_games' = physical_games_pricecharting_games
      ]_vars

\* The names of the games linked to a catalog id
C26_NamesOf(cid) ==
    {g.name : g \in {h \in physical_games :
        \E j \in physical_games_pricecharting_games : \E z \in pricecharting_games :
            /\ j.physical_game = h.id /\ j.pricecharting_game = z.id
            /\ z.pricecharting_id = cid}}

\* C26: the list either selection returns holds no catalog id twice, also when
\* games of different names are linked to one catalog id or when the id has
\* rows for several conditions, and it is in ascending order of the name of a
\* game linked to each id.
C26_OnceInNameOrder ==
    (last.op \in {"retrieve_games", "legacy_retrieve_games"} /\ last.ok) =>
        LET ids == report.result
        IN  /\ \A i \in 1..Len(ids) : \A j \in 1..Len(ids) : i # j => ids[i] # ids[j]
            /\ \E name \in [1..Len(ids) -> Names] :
                  /\ \A i \in 1..Len(ids) : name[i] \in C26_NamesOf(ids[i])
                  /\ \A i \in 1..Len(ids) : \A j \in 1..Len(ids) :
                        i < j => name[i] <= name[j]

\* The same for the selection over the eligible_price_updates view alone
C26_ViewOnce ==
    (last.op = "retrieve_games" /\ last.ok) =>
        LET ids == report.result
        IN  /\ \A i \in 1..Len(ids) : \A j \in 1..Len(ids) : i # j => ids[i] # ids[j]
            /\ \E name \in [1..Len(ids) -> Names] :
                  /\ \A i \in 1..Len(ids) : name[i] \in C26_NamesOf(ids[i])
                  /\ \A i \in 1..Len(ids) : \A j \in 1..Len(ids) :
                        i < j => name[i] <= name[j]

\* C27: when a run of GameLibrary.retrieve_prices has reached its tally, a
\* selected id whose snapshot was saved is in no selection made less than 7
\* days later, and a selected id whose fetch or save failed has no row of this
\* run and is in every later selection of the unchanged store.
C27_ResumeSafe ==
    (run.op = "retrieve_prices" /\ run.pc = "done") =>
        \A k \in 1..Len(run.games) :
            LET cid == run.games[k]
            IN  IF cid \in Range(run.saved)
                THEN /\ ObservedAt(cid, now) # {}
                     /\ \A t \in now..(now + STALE_DAYS - 1) :
                           cid \notin Range(retrieve_games(DB, t, NULL))
                ELSE /\ ObservedAt(cid, now) = {}
                     /\ \A t \in now..(now + STALE_DAYS) :
                           cid \in Range(retrieve_games(DB, t, NULL))

\* A second run on the day of the first: the first saved a snapshot without any
\* price for one id and failed for another, the second selected only the latter
C27_Witness ==
    /\ run.op = "retrieve_prices" /\ run.pc = "done"
    /\ Len(run.games) = 1
    /\ Len(run.saved) = 0
    /\ \E cid \in CatalogIds :
          /\ Some(cid) \notin Range(run.games)
          /\ ObservedAt(Some(cid), now) # {}
          /\ \A r \in ObservedAt(Some(cid), now) : r.price = NULL
          /\ \E g \in physical_games : \E j \in physical_games_pricecharting_games :
             \E z \in pricecharting_games :
                /\ j.physical_game = g.id /\ j.pricecharting_game = z.id
                /\ z.pricecharting_id = Some(cid)

\* C28: the catalog ids selected through latest_prices (retrieve_time older than
\* 7 days or null) are those selected through eligible_price_updates, and the
\* count printed by GameLibrary.retrieve_prices is the length of the unbounded
\* selection.
C28_SelectionsAgree ==
    (last.op = "retrieve_prices" /\ report.op = "retrieve_prices") =>
        /\ Range(report.legacy_games) = Range(report.games)
        /\ report.total_eligible = Len(report.games)

\* The catalog rows an identifier run selected and got an identity for, and
\* whether its insert_game_ids wrote them
C29_Resolved(k) == \E j \in 1..Len(run.retrieved) : run.retrieved[j].id = run.games[k].g
C29_Saved ==
    \A j \in 1..Len(run.retrieved) :
        ~ \E z \in pricecharting_games :
              z.id = run.retrieved[j].id /\ z.pricecharting_id = NULL

\* C29: an identifier run selects exactly the catalog rows without an id, in
\* ascending order of name; when it has ended, a row it resolved and saved is
\* not selected again, a row whose lookup failed is unchanged and is in the
\* failure list, and the rows a second run would select are those of the
\* failure list, so that the same responses leave the store as it is.
C29_Idempotent ==
    /\ (run.op = "retrieve_ids" /\ run.pc = "loop") =>
          /\ run.games = unidentified_games(DB)
          /\ \A k \in 1..Len(run.games) : \A j \in 1..Len(run.games) :
                k < j => run.games[k].name <= run.games[j].name
          /\ {x.g : x \in Range(run.games)}
                = {z.id : z \in {y \in pricecharting_games : y.pricecharting_id = NULL}}
    /\ (run.op = "retrieve_ids" /\ run.pc \in {"done", "terminated"}) =>
          /\ \A k \in 1..Len(run.games) :
                /\ (C29_Resolved(k) /\ C29_Saved) =>
                      run.games[k].g \notin {x.g : x \in Range(unidentified_games(DB))}
                /\ (~ C29_Resolved(k) /\ k <= run.i) =>
                      /\ \E z \in pricecharting_games :
                            /\ z.id = run.games[k].g /\ z.pricecharting_id = NULL
                            /\ z.name = run.games[k].name
                      /\ \E f \in Range(run.failed) : f.game = run.games[k].g
          /\ (run.pc = "done" /\ C29_Saved) =>
                {x.g : x \in Range(unidentified_games(DB))}
                    = {f.game : f \in Range(run.failed)}

\* C30: every row of the link table references a physical game and a catalog
\* row that are in the store, after any sequence of adds, updates, removals,
\* identifier runs and price refreshes.
C30_LinkIntegrity ==
    \A j \in physical_games_pricecharting_games :
        /\ \E g \in physical_games : g.id = j.physical_game
        /\ \E z \in pricecharting_games : z.id = j.pricecharting_game

====
